---- MODULE Spec2Model ----
(***************************************************************************)
(* Verification model of the binetic control plane.                        *)
(*                                                                         *)
(*   security/policies.py  Policy, PolicyEngine (access checks)            *)
(*   security/kernel.py    KernelPolicyEnforcer (global guardrails)        *)
(*   security/keys.py      KeyManager (key lifecycle, storage adapter)     *)
(*   core/operators.py     OperatorRegistry.invoke                         *)
(*   core/discovery.py     DiscoveryEngine.discover_from_source            *)
(*   core/brain.py         Brain._on_capability_discovered (promotion)     *)
(*                                                                         *)
(* Strings that the code tests with str.startswith are sequences of        *)
(* tokens; the string is the concatenation of its tokens and a prefix test *)
(* is a prefix test on the token sequence.                                 *)
(***************************************************************************)
EXTENDS Integers, Sequences, FiniteSets, TLC

VARIABLES
    \* ---- security/policies.py : PolicyEngine
    policies,       \* PolicyEngine._policies : policy_id -> Policy
    policyOrder,    \* insertion order of the _policies dict
    \* ---- core/operators.py : OperatorRegistry
    operators,      \* OperatorRegistry._operators : operator_id -> OperatorSignature
    disk,           \* the catalog _save_to_disk wrote last : operator_id -> its fields
    inflight,       \* invocations suspended in their outbound call
    history,        \* number of records in _invocation_history
    outbound,       \* number of outbound HTTP / MCP calls started so far
    lastInv,        \* what the latest step of invoke() did
    \* ---- core/discovery.py : DiscoveryEngine
    capabilities,   \* DiscoveryEngine._capabilities : capability_id -> Capability
    hookOn,         \* Brain._on_capability_discovered is in _discovery_hooks
    lastDisc,       \* what the latest discover_from_source() did
    \* ---- security/keys.py : KeyManager
    storageOn,      \* KeyManager._storage is not None
    keys,           \* KeyManager._keys : key_id -> APIKey
    keysByHash,     \* KeyManager._keys_by_hash : key_hash -> key_id
    storage,        \* the adapter's persisted keys : key_id -> APIKey
    tasks,          \* the coroutines running KeyManager methods
    revoked,        \* key ids for which revoke_key has returned True
    lastKey,        \* what the latest KeyManager call returned
    now,            \* time.time(): ticks for the key manager, seconds for the gateway
    \* ---- security/auth.py : AuthGateway
    tokens,         \* the AuthTokens create_token / refresh_token have returned
    rateLimits,     \* AuthGateway._rate_limits : key_id -> the three windows
    grants,         \* the check_rate_limit calls that returned allowed: (key, time)
    lastAuth,       \* what the latest AuthGateway call returned
    \* ---- core/network.py : EmergentNetwork
    slots,          \* EmergentNetwork.slots : slot_id -> ReactiveSlot
    _running,       \* EmergentNetwork._running
    loop,           \* where the _signal_loop task stands
    calls,          \* the invoke_operator calls suspended in registry.invoke
    lastNet,        \* what the latest step of the network did
    \* ---- core/operators.py : OperatorPipeline
    pipeline,       \* an OperatorPipeline and the execute() call running on it
    \* ---- security/policies.py : PolicyEngine checks
    lastCheck,      \* the latest check_*access call and what it returned
    \* ---- core/memtools.py : MemtoolRegistry
    memories,       \* MemtoolRegistry._memories : memory_id -> Memory
    tagIndex,       \* MemtoolRegistry._indices["tags"] : tag -> set of memory ids
    lastMem,        \* what the latest MemtoolRegistry call returned
    \* ---- security/sessions.py : SessionManager
    sessions,       \* SessionManager._sessions : session_id -> Session
    kv,             \* the storage adapter's sessions : session_id -> Session.to_dict()
    sessTasks,      \* the coroutines running SessionManager methods
    deletedSessions,\* session ids for which delete_session has returned
    lastSess,       \* what the latest SessionManager call returned
    \* ---- core/network.py : EmergentNetwork.start / stop
    _tasks,         \* EmergentNetwork._tasks : the loop tasks start() created
    stopAt          \* the task a suspended stop() awaits; 0 when none is running

polVars  == <<policies, policyOrder>>
opVars   == <<operators, disk, inflight, history, outbound, lastInv>>
discVars == <<capabilities, hookOn, lastDisc>>
keyVars  == <<storageOn, keys, keysByHash, storage, tasks, revoked, lastKey>>
authVars == <<tokens, rateLimits, grants, lastAuth>>
netVars  == <<slots, _running, loop, calls, lastNet>>
pipeVars == <<pipeline>>
checkVars == <<lastCheck>>
memVars  == <<memories, tagIndex, lastMem>>
sessVars == <<sessions, kv, sessTasks, deletedSessions, lastSess>>
lifeVars == <<_tasks, stopAt>>
lastVars == <<sessVars, lifeVars>>
pastPipe == <<checkVars, memVars, lastVars>>
laterVars == <<pipeVars, pastPipe>>
extVars  == <<authVars, netVars, laterVars>>
vars     == <<policies, policyOrder, operators, disk, inflight, history, outbound,
              lastInv, capabilities, hookOn, lastDisc, storageOn,
              keys, keysByHash, storage, tasks, revoked, lastKey, now,
              tokens, rateLimits, grants, lastAuth,
              slots, _running, loop, calls, lastNet,
              pipeline, lastCheck, memories, tagIndex, lastMem,
              sessions, kv, sessTasks, deletedSessions, lastSess,
              _tasks, stopAt>>

(***************************************************************************)
(* Bounds of the model.                                                    *)
(***************************************************************************)
MaxOps      == 1    \* operator ids a caller may register explicitly
MaxCalls    == 1    \* outbound calls started in one behaviour
MaxKeys     == 2    \* API keys ever issued
MaxTasks    == 2    \* KeyManager coroutines alive at once
MaxNow      == 2    \* clock ticks

(***************************************************************************)
(* Strings and prefixes.                                                   *)
(***************************************************************************)
\* str.startswith(prefix)
StartsWith(s, p) == Len(p) <= Len(s) /\ SubSeq(s, 1, Len(p)) = p

\* Identifiers (policy, operator, capability and resource ids, endpoints) are
\* token sequences; Python's None is the empty sequence.
None == <<>>

\* an empty dict
EmptyMap == [x \in {} |-> None]
Put(f, k, v) == [x \in DOMAIN f \cup {k} |-> IF x = k THEN v ELSE f[x]]

(***************************************************************************)
(* security/policies.py                                                    *)
(***************************************************************************)
\* PermissionLevel
LvNONE    == 0
LvREAD    == 1
LvEXECUTE == 2
LvWRITE   == 3
LvADMIN   == 4
LvMASTER  == 5

ResourceTypes == {"operator", "slot", "network", "key", "policy", "user", "audit", "system"}

Permission(rt, rid, lv) == [resource_type |-> rt, resource_id |-> rid, level |-> lv]

\* Restriction()
DefaultRestriction ==
    [ip_whitelist |-> {}, ip_blacklist |-> {}, valid_from |-> 0, valid_until |-> 0]

\* RateLimit(requests_per_minute, requests_per_hour, requests_per_day)
RateLimit(m, h, d) ==
    [requests_per_minute |-> m, requests_per_hour |-> h, requests_per_day |-> d]

\* Policy(policy_id=..., permissions=...), the other fields at their defaults.
\* null_fields names the list attributes that hold None instead of a list
\* (api/routes.py stores body.get(...) unvalidated).
NewPolicy(pid, perms) ==
    [policy_id         |-> pid,
     permissions       |-> perms,
     allowed_operators |-> {},
     denied_operators  |-> {},
     allowed_endpoints |-> {},
     denied_endpoints  |-> {},
     null_fields       |-> {},
     rate_limits       |-> RateLimit(60, 1000, 10000),
     restrictions      |-> DefaultRestriction,
     is_active         |-> TRUE]

\* Restriction.is_valid_time
is_valid_time(r, t) ==
    /\ ~(r.valid_from # 0 /\ t < r.valid_from)
    /\ ~(r.valid_until # 0 /\ t > r.valid_until)

\* Restriction.is_valid_ip
is_valid_ip(r, ip) ==
    /\ ~(r.ip_blacklist # {} /\ ip \in r.ip_blacklist)
    /\ ~(r.ip_whitelist # {} /\ ip \notin r.ip_whitelist)

\* Policy.can_access_operator (raises TypeError when denied_operators is None)
can_access_operator_raises(p) == "denied_operators" \in p.null_fields

\* can_access_operator without its deny list
AllowedOperatorsOnly(p, operator_id) ==
    ~(p.allowed_operators # {} /\ operator_id \notin p.allowed_operators)

can_access_operator(p, operator_id) ==
    /\ operator_id \notin p.denied_operators
    /\ ~(p.allowed_operators # {} /\ operator_id \notin p.allowed_operators)

\* Policy.can_access_endpoint (raises TypeError when denied_endpoints is None)
can_access_endpoint_raises(p) == "denied_endpoints" \in p.null_fields

\* can_access_endpoint without its deny list
AllowListOnly(p, endpoint) ==
    p.allowed_endpoints # {} => \E e \in p.allowed_endpoints : StartsWith(endpoint, e)

can_access_endpoint(p, endpoint) ==
    /\ ~(\E e \in p.denied_endpoints : StartsWith(endpoint, e))
    /\ (p.allowed_endpoints # {} =>
            \E e \in p.allowed_endpoints : StartsWith(endpoint, e))

\* Policy.get_permission_level
MaxOf(S) == IF S = {} THEN LvNONE ELSE CHOOSE x \in S : \A y \in S : y <= x

\* get_permission_level without the test of the resource type
LevelOfAnyType(p, rt, rid) ==
    MaxOf({perm.level : perm \in
            {q \in p.permissions : q.resource_id = None \/ q.resource_id = rid}})

get_permission_level(p, rt, rid) ==
    MaxOf({perm.level : perm \in
            {q \in p.permissions :
                /\ q.resource_type = rt
                /\ (q.resource_id = None \/ q.resource_id = rid)}})

\* Results of the engine's checks: (allowed, reason).
Granted        == [allowed |-> TRUE,  reason |-> "Access granted"]
Refused(why)   == [allowed |-> FALSE, reason |-> why]

\* PolicyEngine.check_access
check_access(pols, pid, rt, rid, required, ip, t) ==
    IF pid \notin DOMAIN pols THEN Refused("Policy not found")
    ELSE LET p == pols[pid] IN
         IF ~p.is_active THEN Refused("Policy is inactive")
         ELSE IF ~is_valid_time(p.restrictions, t) THEN Refused("Outside valid time window")
         ELSE IF ip # "" /\ ~is_valid_ip(p.restrictions, ip) THEN Refused("IP not allowed")
         ELSE IF get_permission_level(p, rt, rid) < required
              THEN Refused("Insufficient permission")
         ELSE Granted

\* PolicyEngine.check_operator_access
check_operator_access(pols, pid, operator_id, ip, t) ==
    IF pid \notin DOMAIN pols THEN Refused("Policy not found")
    ELSE IF ~can_access_operator(pols[pid], operator_id)
         THEN Refused("Operator not allowed by policy")
    ELSE check_access(pols, pid, "operator", operator_id, LvEXECUTE, ip, t)

\* method_levels.get(method.upper(), PermissionLevel.READ)
method_level(method) ==
    CASE method \in {"GET", "HEAD"}  -> LvREAD
      [] method = "POST"             -> LvEXECUTE
      [] method \in {"PUT", "PATCH"} -> LvWRITE
      [] method = "DELETE"           -> LvADMIN
      [] OTHER                       -> LvREAD

\* PolicyEngine.check_endpoint_access
check_endpoint_access(pols, pid, endpoint, method, ip, t) ==
    IF pid \notin DOMAIN pols THEN Refused("Policy not found")
    ELSE IF ~can_access_endpoint(pols[pid], endpoint)
         THEN Refused("Endpoint not allowed by policy")
    ELSE check_access(pols, pid, "system", endpoint, method_level(method), ip, t)

\* create_default_policies: the permissions of the built-in policies
AllTypes(lv) == {Permission(rt, None, lv) : rt \in ResourceTypes}

PolMaster   == <<"pol_", "master">>
PolAdmin    == <<"pol_", "admin">>
PolUser     == <<"pol_", "user">>
PolReadonly == <<"pol_", "readonly">>
PolCustom   == <<"pol_", "custom">>
KpolDefault == <<"kpol_", "default">>
KpolA       == <<"kpol_", "a">>

WithLimits(p, rl) == [p EXCEPT !.rate_limits = rl]

DefaultPolicies ==
    (PolMaster :> WithLimits(NewPolicy(PolMaster, AllTypes(LvMASTER)),
                             RateLimit(1000, 50000, 1000000))) @@
    (PolAdmin  :> WithLimits(NewPolicy(PolAdmin,
                    {Permission("operator", None, LvADMIN),
                     Permission("slot", None, LvADMIN),
                     Permission("network", None, LvADMIN),
                     Permission("key", None, LvWRITE),
                     Permission("policy", None, LvREAD),
                     Permission("user", None, LvWRITE),
                     Permission("audit", None, LvREAD),
                     Permission("system", None, LvADMIN)}),
                    RateLimit(300, 10000, 100000))) @@
    (PolUser   :> WithLimits(NewPolicy(PolUser,
                    {Permission("operator", None, LvEXECUTE),
                     Permission("slot", None, LvREAD),
                     Permission("network", None, LvREAD),
                     Permission("system", None, LvREAD)}),
                    RateLimit(60, 1000, 10000))) @@
    (PolReadonly :> WithLimits(NewPolicy(PolReadonly,
                    {Permission("operator", None, LvREAD),
                     Permission("slot", None, LvREAD),
                     Permission("network", None, LvREAD),
                     Permission("system", None, LvREAD)}),
                    RateLimit(30, 500, 5000)))

(***************************************************************************)
(* security/kernel.py                                                      *)
(***************************************************************************)
KERNEL_POLICY_PREFIX == <<"kpol_">>
NoPolicy == None            \* policy_id=None / actor_policy_id=None

\* KernelPolicyEnforcer._ensure_default_policy
KernelDefaultPolicy ==
    NewPolicy(KpolDefault,
        {Permission(rt, None, LvMASTER) :
            rt \in {"system", "operator", "network", "slot", "audit", "key", "policy", "user"}})

\* KernelDecision; raised = the call ended in an exception instead
Decision(ok, why, pid) ==
    [allowed |-> ok, reason |-> why, policy_id |-> pid, detail |-> "", raised |-> FALSE]
DeniedBy(pid, r) ==
    [allowed |-> FALSE, reason |-> "Denied by", policy_id |-> pid, detail |-> r.reason,
     raised |-> FALSE]
Raised ==
    [allowed |-> FALSE, reason |-> "TypeError", policy_id |-> NoPolicy, detail |-> "",
     raised |-> TRUE]

\* actor_context of a call: enforcement dict of invoke(), or {"source_id": ...}
Ctx(actor, bypass, ip) == [actor_policy_id |-> actor, kernel_bypass |-> bypass, ip |-> ip]
NoCtx == Ctx(NoPolicy, FALSE, "")

\* KernelPolicyEnforcer.list_kernel_policies(active_only=True)
IsKernelActive(pols, pid) ==
    StartsWith(pid, KERNEL_POLICY_PREFIX) /\ pid \in DOMAIN pols /\ pols[pid].is_active

list_kernel_policies(pols, order) ==
    SelectSeq(order, LAMBDA pid : IsKernelActive(pols, pid))

\* _can_bypass without the policy check: the flag alone bypasses
CanBypassFlagOnly(pols, ctx, t) == ctx.kernel_bypass

\* KernelPolicyEnforcer._can_bypass
_can_bypass(pols, ctx, t) ==
    IF ctx.actor_policy_id = NoPolicy THEN FALSE
    ELSE IF ~ctx.kernel_bypass THEN FALSE
    ELSE check_access(pols, ctx.actor_policy_id, "system", <<"kernel">>, LvMASTER, ctx.ip, t).allowed

\* the transport invariant of enforce_operator_invoke / enforce_discovery_register
InsecureTransport(endpoint) ==
    /\ StartsWith(endpoint, <<"http://">>)
    /\ ~ \/ StartsWith(endpoint, <<"http://", "localhost">>)
         \/ StartsWith(endpoint, <<"http://", "127.0.0.1">>)
         \/ StartsWith(endpoint, <<"http://", "0.0.0.0">>)

\* the policy loop of enforce_operator_invoke, from the i-th kernel policy on
RECURSIVE InvokeLoop(_, _, _, _, _, _, _, _)
InvokeLoop(pols, kps, i, operator_id, endpoint, method, ip, t) ==
    IF i > Len(kps) THEN Decision(TRUE, "Allowed", NoPolicy)
    ELSE LET pid == kps[i]
             p   == pols[pid]
             r1  == check_operator_access(pols, pid, operator_id, ip, t)
             r2  == check_endpoint_access(pols, pid, endpoint, method, ip, t)
         IN  IF can_access_operator_raises(p) THEN Raised
             ELSE IF ~r1.allowed THEN DeniedBy(pid, r1)
             ELSE IF can_access_endpoint_raises(p) THEN Raised
             ELSE IF ~r2.allowed THEN DeniedBy(pid, r2)
             ELSE InvokeLoop(pols, kps, i + 1, operator_id, endpoint, method, ip, t)

\* KernelPolicyEnforcer.enforce_operator_invoke
enforce_operator_invoke(pols, order, operator_id, endpoint, method, ctx, t) ==
    IF _can_bypass(pols, ctx, t) THEN Decision(TRUE, "Kernel bypass granted", NoPolicy)
    ELSE IF InsecureTransport(endpoint)
         THEN Decision(FALSE, "Insecure transport: HTTPS required", NoPolicy)
    ELSE InvokeLoop(pols, list_kernel_policies(pols, order), 1,
                    operator_id, endpoint, method, ctx.ip, t)

\* the policy loop of enforce_discovery_register
RECURSIVE RegisterLoop(_, _, _, _, _, _, _, _)
RegisterLoop(pols, kps, i, capability_type, endpoint, method, ip, t) ==
    IF i > Len(kps) THEN Decision(TRUE, "Allowed", NoPolicy)
    ELSE LET pid == kps[i]
             p   == pols[pid]
             r1  == check_access(pols, pid, "system", <<"discovery:", capability_type>>,
                                 LvEXECUTE, ip, t)
             r2  == check_endpoint_access(pols, pid, endpoint, method, ip, t)
         IN  IF ~r1.allowed THEN DeniedBy(pid, r1)
             ELSE IF can_access_endpoint_raises(p) THEN Raised
             ELSE IF ~r2.allowed THEN DeniedBy(pid, r2)
             ELSE RegisterLoop(pols, kps, i + 1, capability_type, endpoint, method, ip, t)

\* KernelPolicyEnforcer.enforce_discovery_register
enforce_discovery_register(pols, order, capability_type, endpoint, method, ctx, t) ==
    IF _can_bypass(pols, ctx, t) THEN Decision(TRUE, "Kernel bypass granted", NoPolicy)
    ELSE IF InsecureTransport(endpoint)
         THEN Decision(FALSE, "Insecure transport: HTTPS required", NoPolicy)
    ELSE RegisterLoop(pols, list_kernel_policies(pols, order), 1,
                      capability_type, endpoint, method, ctx.ip, t)

\* the policy loop of enforce_memory_store
RECURSIVE MemoryLoop(_, _, _, _, _, _)
MemoryLoop(pols, kps, i, memory_type, ip, t) ==
    IF i > Len(kps) THEN Decision(TRUE, "Allowed", NoPolicy)
    ELSE LET r == check_access(pols, kps[i], "system", <<"memory:", memory_type>>,
                               LvWRITE, ip, t)
         IN  IF ~r.allowed THEN DeniedBy(kps[i], r)
             ELSE MemoryLoop(pols, kps, i + 1, memory_type, ip, t)

\* KernelPolicyEnforcer.enforce_memory_store
enforce_memory_store(pols, order, memory_type, ctx, t) ==
    IF _can_bypass(pols, ctx, t) THEN Decision(TRUE, "Kernel bypass granted", NoPolicy)
    ELSE MemoryLoop(pols, list_kernel_policies(pols, order), 1, memory_type, ctx.ip, t)

(***************************************************************************)
(* Inputs of the kernel and registry model.                                *)
(***************************************************************************)
EpTLS       == <<"https://", "api.example.com", "/op">>
EpPlain     == <<"http://", "example.com", "/op">>
EpSpoof     == <<"http://", "localhost", ".evil.com", "/op">>
EpLocalPort == <<"http://", "localhost", ":8080", "/op">>
EpLoopback  == <<"http://", "127.0.0.1", "/op">>
EpStdio     == <<"npx", " -y", " server">>

\* (endpoint_url, method) of the operators and capabilities that appear
Signatures ==
    { <<EpTLS, "POST">>, <<EpPlain, "POST">>, <<EpSpoof, "GET">>,
      <<EpLocalPort, "POST">>, <<EpLoopback, "GET">>, <<EpStdio, "MCP">> }

OpId(i)  == <<"op", ToString(i)>>
OpIds    == {OpId(i) : i \in 1..MaxOps}

\* endpoint prefixes that kernel policies list
PrefixTLSHost == <<"https://", "api.example.com">>
PrefixPlain   == <<"http://">>
Prefixes      == {PrefixTLSHost, PrefixPlain}

\* enforcement dicts passed to invoke()
Actors == {NoPolicy, PolMaster, PolUser}
Ctxs   == {Ctx(a, b, "") : a \in Actors, b \in BOOLEAN}

\* request bodies of POST /api/kernel/policies
KernelBody(pid, perms, dops, deps, nulls, active) ==
    [policy_id |-> pid, permissions |-> perms, denied_operators |-> dops,
     denied_endpoints |-> deps, null_fields |-> nulls, is_active |-> active]

KernelBodies ==
    {KernelBody(KpolA, AllTypes(LvMASTER), {}, {p}, {}, TRUE) : p \in Prefixes}
    \cup {KernelBody(KpolA, AllTypes(LvMASTER), {OpId(1)}, {}, {}, TRUE),
          KernelBody(KpolA, {}, {}, {}, {}, TRUE),
          KernelBody(KpolA, AllTypes(LvMASTER), {}, {}, {"denied_endpoints"}, TRUE),
          KernelBody(KpolA, AllTypes(LvMASTER), {}, {}, {"denied_operators"}, TRUE),
          KernelBody(KpolDefault, AllTypes(LvMASTER), {}, {PrefixPlain}, {}, TRUE),
          KernelBody(PolCustom, AllTypes(LvMASTER), {}, {PrefixPlain}, {}, TRUE)}

\* the bodies posted while discovery runs
DiscoveryBodies ==
    {KernelBody(KpolA, AllTypes(LvMASTER), {}, {p}, {}, TRUE) : p \in Prefixes}
    \cup {KernelBody(KpolA, {}, {}, {}, {}, TRUE),
          KernelBody(KpolA, AllTypes(LvMASTER), {}, {}, {"denied_endpoints"}, TRUE)}

\* request bodies of PATCH /api/kernel/policies/:id (one key each)
PatchBodies ==
    {[key |-> "is_active", value |-> b] : b \in BOOLEAN}
    \cup {[key |-> "denied_endpoints", value |-> {}]}

KernelIds == {KpolDefault, KpolA}

(***************************************************************************)
(* api/routes.py : kernel policy routes (the caller holds MASTER on        *)
(* SYSTEM/"kernel"), and PolicyEngine.update_policy / delete_policy        *)
(***************************************************************************)
\* dict assignment d[k] = v keeps k's position or appends it
Touch(order, k) == IF \E i \in 1..Len(order) : order[i] = k THEN order ELSE Append(order, k)
Without(order, k) == SelectSeq(order, LAMBDA x : x # k)
Drop(f, k) == [x \in DOMAIN f \ {k} |-> f[x]]

\* what the latest step reported when it was no registry, discovery or key call
NoInv ==
    [step |-> "", operator_id |-> None, ctx |-> NoCtx, returned |-> FALSE, success |-> FALSE,
     error |-> "", policy_id |-> NoPolicy, stats_updated |-> FALSE]
NoDisc == [stored |-> {}, hooked |-> {}, rejected |-> {}]
NoRet == [op |-> "", key |-> None, raw |-> None, result |-> "", ret |-> None]

ResetNotes == lastInv' = NoInv /\ lastDisc' = NoDisc /\ lastKey' = NoRet

PolicyFrame ==
    /\ ResetNotes
    /\ UNCHANGED <<operators, disk, inflight, history, outbound, capabilities, hookOn,
                   storageOn, keys, keysByHash, storage, tasks, revoked, now>>

\* create_kernel_policy
CreateKernelPolicy(body) ==
    /\ IF ~StartsWith(body.policy_id, KERNEL_POLICY_PREFIX)
       THEN UNCHANGED polVars                        \* 400
       ELSE /\ policies' = [x \in DOMAIN policies \cup {body.policy_id} |->
                    IF x = body.policy_id
                    THEN [NewPolicy(body.policy_id, body.permissions) EXCEPT
                            !.denied_operators = body.denied_operators,
                            !.denied_endpoints = body.denied_endpoints,
                            !.null_fields      = body.null_fields,
                            !.is_active        = body.is_active]
                    ELSE policies[x]]
            /\ policyOrder' = Touch(policyOrder, body.policy_id)
    /\ PolicyFrame

\* update_kernel_policy
UpdateKernelPolicy(pid, body) ==
    /\ IF ~StartsWith(pid, KERNEL_POLICY_PREFIX) \/ pid \notin DOMAIN policies
       THEN UNCHANGED polVars                        \* 404
       ELSE /\ policies' = [policies EXCEPT ![pid] =
                    IF body.key = "is_active"
                    THEN [@ EXCEPT !.is_active = body.value]
                    ELSE [@ EXCEPT !.denied_endpoints = body.value,
                                   !.null_fields = @ \ {"denied_endpoints"}]]
            /\ policyOrder' = policyOrder
    /\ PolicyFrame

\* PolicyEngine.delete_policy
delete_policy(pid) ==
    /\ IF pid \in DOMAIN policies
       THEN /\ policies' = Drop(policies, pid)
            /\ policyOrder' = Without(policyOrder, pid)
       ELSE UNCHANGED polVars
    /\ PolicyFrame

\* delete_kernel_policy
DeleteKernelPolicy(pid) ==
    IF ~StartsWith(pid, KERNEL_POLICY_PREFIX)
    THEN UNCHANGED polVars /\ PolicyFrame            \* 404
    ELSE delete_policy(pid)

\* PolicyEngine.update_policy(policy_id, {"is_active": b})
update_policy(pid, b) ==
    /\ IF pid \notin DOMAIN policies
       THEN UNCHANGED polVars
       ELSE /\ policies' = [policies EXCEPT ![pid].is_active = b]
            /\ policyOrder' = policyOrder
    /\ PolicyFrame

(***************************************************************************)
(* core/operators.py : OperatorRegistry                                    *)
(***************************************************************************)
\* whether the mcp client package imported (module constant MCP_AVAILABLE)
MCP_AVAILABLE == TRUE

\* 1.0 in the fixed-point numbers that stand for the floats success_rate and
\* avg_latency_ms (millionths; products are rounded down)
Unit == 1000000

\* invocation.latency_ms of the outbound calls, in milliseconds
Latencies == {50}

\* OperatorSignature(operator_id, endpoint_url, method), statistics at defaults
Signature(operator_id, endpoint, method) ==
    [operator_id |-> operator_id, endpoint_url |-> endpoint, method |-> method,
     call_count |-> 0, avg_latency_ms |-> 0, success_rate |-> Unit, last_used |-> 0,
     origin |-> "register",     \* who registered it: a caller or the promotion hook
     kernel_ok |-> TRUE]        \* for a promoted operator: it was admitted by the kernel

\* what a step of invoke() did: the invocation it returned (returned = TRUE) or
\* the outbound call it is suspended in; step = "call" for the run from the call
\* of invoke(), "return" for the run after the outbound call
Inv(step, operator_id, ctx, returned, success, error, policy_id, stats) ==
    [step |-> step, operator_id |-> operator_id, ctx |-> ctx, returned |-> returned,
     success |-> success, error |-> error, policy_id |-> policy_id,
     stats_updated |-> stats]

\* OperatorRegistry.register: the operator is stored and _save_to_disk writes
\* the whole catalog
register(op) ==
    /\ operators' = [x \in DOMAIN operators \cup {op.operator_id} |->
                        IF x = op.operator_id THEN op ELSE operators[x]]
    /\ disk' = operators'

\* a suspended invoke() keeps the OperatorSignature object it looked up; after
\* a re-registration of its id that object is no longer the registered one
Detach(infl, ids) ==
    {IF c.operator_id \in ids THEN [c EXCEPT !.detached = TRUE] ELSE c : c \in infl}

Register(operator_id, sig) ==
    /\ register(Signature(operator_id, sig[1], sig[2]))
    /\ inflight' = Detach(inflight, {operator_id})
    /\ lastInv' = NoInv
    /\ lastDisc' = NoDisc
    /\ UNCHANGED <<history, outbound>>
    /\ UNCHANGED <<polVars, capabilities, hookOn, keyVars, now>>

\* invoke() failing open: an enforcement error counts as allow
ProceedsOnError(d) == d.raised \/ d.allowed

\* invoke() goes on to the outbound call: a decision was returned and allows
InvokeProceeds(d) == ~d.raised /\ d.allowed

\* the decision invoke() obtains inside its inner try
InvokeDecision(op, ctx) ==
    enforce_operator_invoke(policies, policyOrder, op.operator_id, op.endpoint_url,
                            op.method, ctx, now)

\* OperatorRegistry.invoke, up to its return or its outbound call
invoke(operator_id, ctx) ==
    /\ IF operator_id \notin DOMAIN operators
       THEN /\ lastInv' = Inv("call", operator_id, ctx, TRUE, FALSE, "Operator not found",
                              NoPolicy, FALSE)
            /\ UNCHANGED <<operators, disk, inflight, history, outbound>>
       ELSE LET op == operators[operator_id]
                d  == InvokeDecision(op, ctx)
            IN  IF ~InvokeProceeds(d)
                THEN \* "if not decision.allowed", or "except Exception" (fail-safe)
                     /\ lastInv' = Inv("call", operator_id, ctx, TRUE, FALSE,
                                       IF d.raised THEN "Kernel enforcement error"
                                                   ELSE d.reason,
                                       d.policy_id, FALSE)
                     /\ history' = history + 1
                     /\ UNCHANGED <<operators, disk, inflight, outbound>>
                ELSE IF op.method = "MCP" /\ ~MCP_AVAILABLE
                THEN /\ lastInv' = Inv("call", operator_id, ctx, TRUE, FALSE,
                                       "MCP client not available", NoPolicy, FALSE)
                     /\ UNCHANGED <<operators, disk, inflight, history, outbound>>
                ELSE \* await the MCP tool call or the HTTP request
                     /\ inflight' = inflight \cup
                            {[n |-> outbound + 1, operator_id |-> operator_id,
                              method |-> op.method, ctx |-> ctx, detached |-> FALSE]}
                     /\ outbound' = outbound + 1
                     /\ lastInv' = Inv("call", operator_id, ctx, FALSE, FALSE, "", NoPolicy, FALSE)
                     /\ UNCHANGED <<operators, disk, history>>
    /\ lastDisc' = NoDisc
    /\ UNCHANGED <<polVars, capabilities, hookOn, keyVars, now>>

\* invoke() while the behaviour may still start a call
InvokeCall(operator_id, ctx) ==
    /\ history + Cardinality(inflight) < MaxCalls
    /\ invoke(operator_id, ctx)

\* ways the outbound call ends
Outcomes == {"2xx", "5xx", "timeout", "error"}

\* OperatorSignature.update_stats
signature_update_stats(op, success, latency_ms) ==
    [op EXCEPT !.call_count = @ + 1,
               !.success_rate = (9 * @ + (IF success THEN Unit ELSE 0)) \div 10,
               !.avg_latency_ms = IF @ = 0 THEN latency_ms * Unit
                                  ELSE (9 * @ + latency_ms * Unit) \div 10]

\* _update_stats after its _save_to_disk(): the second moving averages
Reaveraged(op, success, latency_ms) ==
    [op EXCEPT !.avg_latency_ms = (2 * latency_ms * Unit + 8 * @) \div 10,
               !.success_rate = (95 * @ + (IF success THEN 5 * Unit ELSE 0)) \div 100]

\* OperatorRegistry._update_stats for the OperatorSignature object invoke()
\* looked up: update_stats, last_used, _save_to_disk, then the second
\* averages; a detached object is no longer in the catalog that is saved
update_stats(c, success) ==
    \E latency_ms \in Latencies :
        IF ~c.detached
        THEN LET first == [signature_update_stats(operators[c.operator_id], success,
                                                  latency_ms)
                            EXCEPT !.last_used = now]
             IN  /\ disk' = [operators EXCEPT ![c.operator_id] = first]
                 /\ operators' = [operators EXCEPT ![c.operator_id] =
                                    Reaveraged(first, success, latency_ms)]
        ELSE /\ disk' = operators
             /\ operators' = operators

\* OperatorRegistry.invoke, from the end of its outbound call to its return
InvokeReturn(c, outcome) ==
    /\ c \in inflight
    /\ inflight' = inflight \ {c}
    /\ history' = history + 1
    /\ IF c.method = "MCP"
       THEN \* _invoke_mcp's exceptions are caught before the stats update
            /\ update_stats(c, outcome = "2xx")
            /\ lastInv' = Inv("return", c.operator_id, c.ctx, TRUE, outcome = "2xx",
                              IF outcome = "2xx" THEN "" ELSE outcome, NoPolicy, TRUE)
       ELSE IF outcome \in {"2xx", "5xx"}
       THEN /\ update_stats(c, outcome = "2xx")
            /\ lastInv' = Inv("return", c.operator_id, c.ctx, TRUE, outcome = "2xx", "",
                              NoPolicy, TRUE)
       ELSE \* except asyncio.TimeoutError / except Exception
            /\ UNCHANGED <<operators, disk>>
            /\ lastInv' = Inv("return", c.operator_id, c.ctx, TRUE, FALSE,
                              IF outcome = "timeout" THEN "Timeout" ELSE outcome,
                              NoPolicy, FALSE)
    /\ lastDisc' = NoDisc
    /\ UNCHANGED <<outbound, polVars, capabilities, hookOn, keyVars, now>>

(***************************************************************************)
(* core/discovery.py : DiscoveryEngine, core/brain.py : promotion hook     *)
(***************************************************************************)
MaxCaps == 1    \* capability ids the probed sources produce
MaxList == 2    \* capabilities one probe returns

CapId(i) == <<"cap", ToString(i)>>

\* Capability(capability_id, capability_type, endpoint, method)
Capability(cid, ctype, endpoint, method) ==
    [capability_id |-> cid, capability_type |-> ctype, endpoint |-> endpoint,
     method |-> method]

\* what the probers can return for a source
CapKinds ==
    { <<"rest_api", EpTLS, "POST">>, <<"rest_api", EpPlain, "POST">>,
      <<"rest_api", EpSpoof, "GET">>, <<"graphql", EpTLS, "POST">> }

CapInputs ==
    {Capability(CapId(i), k[1], k[2], k[3]) : i \in 1..MaxCaps, k \in CapKinds}

Probes == UNION {[1..n -> CapInputs] : n \in 1..MaxList}

\* the decision discover_from_source obtains for a capability
RegisterDecision(cap) ==
    enforce_discovery_register(policies, policyOrder, cap.capability_type, cap.endpoint,
                               cap.method, NoCtx, now)

\* discover_from_source without its "if not decision.allowed: continue"
AdmittedUnlessRaised(d) == ~d.raised

\* discover_from_source stores the capability: a decision was returned and allows
\* (neither "continue" is taken)
Admitted(d) == ~d.raised /\ d.allowed

\* Brain._on_capability_discovered promotes only executable capabilities
Promotable(cap) == cap.capability_type \in {"tool", "function", "rest_api"}

\* the registration loop of discover_from_source, from the i-th capability on;
\* acc = [caps, ops, stored, hooked, rejected, promoted]
RECURSIVE RegisterFrom(_, _, _)
RegisterFrom(found, i, acc) ==
    IF i > Len(found) THEN acc
    ELSE LET cap == found[i]
             d   == RegisterDecision(cap)
             ok  == ~d.raised /\ d.allowed
         IN  IF ~Admitted(d)
             THEN RegisterFrom(found, i + 1,
                    [acc EXCEPT !.rejected = @ \cup {cap}])
             ELSE LET stored == [x \in DOMAIN acc.caps \cup {cap.capability_id} |->
                                   IF x = cap.capability_id
                                   THEN [cap |-> cap, kernel_ok |-> ok]
                                   ELSE acc.caps[x]]
                      op == [Signature(cap.capability_id, cap.endpoint, cap.method)
                                EXCEPT !.origin = "hook", !.kernel_ok = ok]
                      promoted == hookOn /\ Promotable(cap)
                  IN RegisterFrom(found, i + 1,
                      [acc EXCEPT
                        !.caps = stored,
                        !.stored = @ \cup {cap},
                        !.hooked = IF hookOn THEN @ \cup {cap} ELSE @,
                        !.promoted = IF promoted THEN @ \cup {cap.capability_id} ELSE @,
                        !.ops = IF promoted
                                THEN [x \in DOMAIN @ \cup {op.operator_id} |->
                                        IF x = op.operator_id THEN op ELSE @[x]]
                                ELSE @])

\* DiscoveryEngine.discover_from_source, for what the prober returned
Discover(found) ==
    \E acc \in {RegisterFrom(found, 1,
                  [caps |-> capabilities, ops |-> operators,
                   stored |-> {}, hooked |-> {}, rejected |-> {}, promoted |-> {}])} :
        /\ capabilities' = acc.caps
        /\ operators' = acc.ops
        /\ disk' = IF acc.promoted # {} THEN acc.ops ELSE disk
        /\ inflight' = Detach(inflight, acc.promoted)
        /\ lastDisc' = [stored |-> acc.stored, hooked |-> acc.hooked,
                        rejected |-> acc.rejected]
        /\ lastInv' = NoInv
        /\ UNCHANGED <<hookOn, history, outbound, polVars, keyVars, now>>

\* Brain.initialize: self.discovery.on_discovery(self._on_capability_discovered)
BrainInitialize ==
    /\ ~hookOn
    /\ hookOn' = TRUE
    /\ lastDisc' = NoDisc
    /\ lastInv' = NoInv
    /\ UNCHANGED <<capabilities, operators, disk, inflight, history, outbound, polVars,
                   keyVars, now>>

(***************************************************************************)
(* Initial states.                                                         *)
(***************************************************************************)
\* get_policy_engine() followed by KernelPolicyEnforcer()
InitPolicies ==
    /\ policies = DefaultPolicies @@ (KpolDefault :> KernelDefaultPolicy)
    /\ policyOrder = <<PolMaster, PolAdmin, PolUser, PolReadonly, KpolDefault>>

\* OperatorRegistry() with no catalog on disk
InitOperators ==
    /\ operators = EmptyMap
    /\ disk = EmptyMap
    /\ inflight = {}
    /\ history = 0
    /\ outbound = 0
    /\ lastInv = NoInv

\* DiscoveryEngine()
InitDiscovery ==
    /\ capabilities = EmptyMap
    /\ hookOn = FALSE
    /\ lastDisc = NoDisc

(***************************************************************************)
(* security/keys.py : APIKey, KeyManager                                   *)
(***************************************************************************)
KeyId(i) == <<"key", ToString(i)>>
KeyIds   == {KeyId(i) : i \in 1..MaxKeys}

\* generate_key: f"fgk_{scope.value}_{random_part}"
generate_key(scope, random_part) == <<"fgk_", scope, "_", random_part>>

\* hashlib.sha256(raw_key.encode()).hexdigest()
Hash(raw) == <<"sha256">> \o raw

\* (owner_id, policy_id, scope) that callers of create_key pass
Profiles ==
    { [owner_id |-> "alice", policy_id |-> PolUser,   scope |-> "user"],
      [owner_id |-> "bob",   policy_id |-> PolMaster, scope |-> "service"] }

\* the profile of the keys issued while a storage adapter is configured
StoredProfile == [owner_id |-> "alice", policy_id |-> PolUser, scope |-> "user"]

\* expires_in_days * 86400, in ticks
ExpiryTicks == 1

\* APIKey(...)
APIKey(key_id, key_hash, owner_id, policy_id, scope, expires_at) ==
    [key_id |-> key_id, key_hash |-> key_hash, owner_id |-> owner_id,
     policy_id |-> policy_id, scope |-> scope, status |-> "active",
     expires_at |-> expires_at]
NoKey == [APIKey(None, None, "", None, "", 0) EXCEPT !.status = ""]

\* APIKey.is_valid
is_valid(k, t) ==
    /\ k.status \notin {"revoked", "suspended", "expired"}
    /\ ~(k.expires_at # 0 /\ t > k.expires_at)

\* the raw secret create_key returned for a key (the i-th key issued draws
\* the i-th random part)
RawOf(k) == generate_key(k.scope, k.key_id[2])

\* the raw secrets issued so far
IssuedRaws == {RawOf(keys[k]) : k \in DOMAIN keys} \cup {RawOf(storage[k]) : k \in DOMAIN storage}

\* raw strings presented to verify_key besides the issued ones
BogusRaws == { <<"sk_", "user", "_", "1">>, <<"fgk_", "user", "_", "zzz">> }

\* storage adapter: get_key(key_id) / get_key_by_hash(key_hash)
storage_get_key(key_id) ==
    IF key_id \in DOMAIN storage THEN storage[key_id] ELSE NoKey
storage_get_key_by_hash(h) ==
    IF \E id \in DOMAIN storage : storage[id].key_hash = h
    THEN storage[CHOOSE id \in DOMAIN storage : storage[id].key_hash = h]
    ELSE NoKey

\* a coroutine of the KeyManager: idle, or suspended in a storage call
Task(pc, op, key, raw, snap, succ) ==
    [pc |-> pc, op |-> op, key |-> key, raw |-> raw, snap |-> snap, succ |-> succ]
Idle == Task("idle", "", None, None, NoKey, None)

\* what a KeyManager call returned in the latest step
Ret(op, key, raw, result, ret) ==
    [op |-> op, key |-> key, raw |-> raw, result |-> result, ret |-> ret]

\* the smallest key index not yet issued
Issued == DOMAIN keys \cup DOMAIN storage
CanIssue == \E i \in 1..MaxKeys : KeyId(i) \notin Issued
FreshIndex == CHOOSE i \in 1..MaxKeys :
                 /\ KeyId(i) \notin Issued
                 /\ \A j \in 1..(i - 1) : KeyId(j) \in Issued

\* the APIKey create_key builds
NewKey(owner_id, policy_id, scope, expires_at) ==
    APIKey(KeyId(FreshIndex), Hash(generate_key(scope, ToString(FreshIndex))),
           owner_id, policy_id, scope, expires_at)

\* KeyManager.verify_key run to completion on the present state (no other
\* coroutine runs meanwhile): the key id it returns, or None
verify_key(raw) ==
    LET h == Hash(raw) IN
    IF ~StartsWith(raw, <<"fgk_">>) THEN None
    ELSE IF h \in DOMAIN keysByHash /\ keysByHash[h] \in DOMAIN keys
         THEN IF is_valid(keys[keysByHash[h]], now) THEN keysByHash[h] ELSE None
    ELSE IF storageOn /\ storage_get_key_by_hash(h) # NoKey
         THEN IF is_valid(storage_get_key_by_hash(h), now)
              THEN storage_get_key_by_hash(h).key_id ELSE None
    ELSE None

\* ---- KeyManager methods, one action per run between two suspensions ----
\* coroutines are anonymous: a new call runs in the first free slot
FreeSlot(t) == tasks[t] = Idle /\ \A u \in 1..(t - 1) : tasks[u] # Idle

Settle(t, task, ret) ==
    /\ tasks' = [tasks EXCEPT ![t] = task]
    /\ lastKey' = ret

\* KeyManager.create_key, to its storage write or its return
CreateKeyCall(t, prof, expires) ==
    /\ FreeSlot(t)
    /\ CanIssue
    /\ IF prof.policy_id \notin DOMAIN policies
       THEN \* raise ValueError("Policy not found")
            /\ Settle(t, Idle, Ret("create", None, None, "raise", None))
            /\ UNCHANGED <<keys, keysByHash>>
       ELSE LET k == NewKey(prof.owner_id, prof.policy_id, prof.scope,
                            IF expires THEN now + ExpiryTicks ELSE 0)
            IN  /\ keys' = Put(keys, k.key_id, k)
                /\ keysByHash' = Put(keysByHash, k.key_hash, k.key_id)
                /\ IF storageOn
                   THEN Settle(t, Task("create_save", "create", k.key_id, None, k, None),
                               NoRet)
                   ELSE Settle(t, Idle, Ret("create", k.key_id, RawOf(k), "ok", k.key_id))
    /\ UNCHANGED <<storage, revoked, storageOn, polVars, opVars, discVars, now>>

\* create_key, from the end of save_key to its return
CreateSaveResume(t) ==
    /\ tasks[t].pc = "create_save"
    /\ storage' = Put(storage, tasks[t].snap.key_id, tasks[t].snap)
    /\ Settle(t, Idle, Ret("create", tasks[t].key, RawOf(tasks[t].snap), "ok",
                           tasks[t].key))
    /\ UNCHANGED <<keys, keysByHash, revoked, storageOn, polVars, opVars, discVars, now>>

\* KeyManager.verify_key, to its storage read or its return
VerifyKeyCall(t, raw) ==
    /\ FreeSlot(t)
    /\ LET h == Hash(raw) IN
       IF ~StartsWith(raw, <<"fgk_">>)
       THEN Settle(t, Idle, Ret("verify", None, raw, "none", None))
       ELSE IF h \in DOMAIN keysByHash /\ keysByHash[h] \in DOMAIN keys
       THEN IF is_valid(keys[keysByHash[h]], now)
            THEN Settle(t, Idle, Ret("verify", None, raw, "ok", keysByHash[h]))
            ELSE Settle(t, Idle, Ret("verify", None, raw, "none", None))
       ELSE IF storageOn
       THEN Settle(t, Task("verify_read", "verify", None, raw,
                           storage_get_key_by_hash(h), None), NoRet)
       ELSE Settle(t, Idle, Ret("verify", None, raw, "none", None))
    /\ UNCHANGED <<keys, keysByHash, storage, revoked, storageOn, polVars, opVars, discVars, now>>

\* verify_key, from the end of get_key_by_hash to its return
VerifyKeyResume(t) ==
    /\ tasks[t].pc = "verify_read"
    /\ LET k == tasks[t].snap
           raw == tasks[t].raw
       IN  IF k = NoKey
           THEN /\ Settle(t, Idle, Ret("verify", None, raw, "none", None))
                /\ UNCHANGED <<keys, keysByHash>>
           ELSE /\ keys' = Put(keys, k.key_id, k)
                /\ keysByHash' = Put(keysByHash, Hash(raw), k.key_id)
                /\ IF is_valid(k, now)
                   THEN Settle(t, Idle, Ret("verify", None, raw, "ok", k.key_id))
                   ELSE Settle(t, Idle, Ret("verify", None, raw, "none", None))
    /\ UNCHANGED <<storage, revoked, storageOn, polVars, opVars, discVars, now>>

KeyOps == {"get", "revoke", "suspend", "reactivate", "rotate"}

\* what a method returns when get_key found nothing
NotFound(op, key_id) ==
    Ret(op, key_id, None, IF op \in {"get", "rotate"} THEN "none" ELSE "false", None)

\* revoke_key's assignments: status = REVOKED, del _keys_by_hash[key_hash]
RevokedIn(K, key_id) == [K EXCEPT ![key_id].status = "revoked"]
Unhashed(H, k) == Drop(H, k.key_hash)

\* suspend_key's assignment
SuspendedIn(K, key_id) == [K EXCEPT ![key_id].status = "suspended"]

\* reactivate_key refuses a revoked key
ReactivateRefused(k) == k.status = "revoked"

\* the successor rotate_key asks create_key for
Successor(old) == NewKey(old.owner_id, old.policy_id, old.scope, 0)

\* a method's code after "api_key = await self.get_key(key_id)" returned the
\* cached key; K and H are _keys and _keys_by_hash at that point
AfterGetKey(t, op, key_id, K, H) ==
    CASE op = "get" ->
            /\ keys' = K /\ keysByHash' = H /\ revoked' = revoked
            /\ Settle(t, Idle, Ret("get", key_id, None, "ok", key_id))
      [] op = "revoke" ->
            /\ keys' = RevokedIn(K, key_id)
            /\ keysByHash' = Unhashed(H, K[key_id])
            /\ IF storageOn
               THEN /\ Settle(t, Task("save", op, key_id, None,
                                      RevokedIn(K, key_id)[key_id], None), NoRet)
                    /\ revoked' = revoked
               ELSE /\ Settle(t, Idle, Ret(op, key_id, None, "ok", None))
                    /\ revoked' = revoked \cup {key_id}
      [] op = "suspend" ->
            /\ keys' = SuspendedIn(K, key_id)
            /\ keysByHash' = H /\ revoked' = revoked
            /\ IF storageOn
               THEN Settle(t, Task("save", op, key_id, None,
                                   SuspendedIn(K, key_id)[key_id], None), NoRet)
               ELSE Settle(t, Idle, Ret(op, key_id, None, "ok", None))
      [] op = "reactivate" ->
            /\ keysByHash' = H /\ revoked' = revoked
            /\ IF ReactivateRefused(K[key_id])
               THEN /\ keys' = K
                    /\ Settle(t, Idle, Ret(op, key_id, None, "false", None))
               ELSE /\ keys' = [K EXCEPT ![key_id].status = "active"]
                    /\ IF storageOn
                       THEN Settle(t, Task("save", op, key_id, None,
                                    [K[key_id] EXCEPT !.status = "active"], None), NoRet)
                       ELSE Settle(t, Idle, Ret(op, key_id, None, "ok", None))
      [] op = "rotate" ->
            IF K[key_id].policy_id \notin DOMAIN policies
            THEN \* create_key raises ValueError
                 /\ keys' = K /\ keysByHash' = H /\ revoked' = revoked
                 /\ Settle(t, Idle, Ret(op, key_id, None, "raise", None))
            ELSE LET new == Successor(K[key_id])
                     K1  == Put(K, new.key_id, new)
                     H1  == Put(H, new.key_hash, new.key_id)
                 IN  IF storageOn
                     THEN /\ keys' = K1 /\ keysByHash' = H1 /\ revoked' = revoked
                          /\ Settle(t, Task("rotate_create_save", op, key_id, None, new,
                                            new.key_id), NoRet)
                     ELSE /\ keys' = RevokedIn(K1, key_id)
                          /\ keysByHash' = Unhashed(H1, K[key_id])
                          /\ revoked' = revoked \cup {key_id}
                          /\ Settle(t, Idle, Ret(op, key_id, RawOf(new), "ok", new.key_id))

\* get_key / revoke_key / suspend_key / reactivate_key / rotate_key, to the
\* first storage call or the return
KeyOpCall(t, op, key_id) ==
    /\ FreeSlot(t)
    /\ op = "rotate" => CanIssue
    /\ IF key_id \in DOMAIN keys
       THEN AfterGetKey(t, op, key_id, keys, keysByHash)
       ELSE /\ IF storageOn
               THEN Settle(t, Task("get_read", op, key_id, None,
                                   storage_get_key(key_id), None), NoRet)
               ELSE Settle(t, Idle, NotFound(op, key_id))
            /\ UNCHANGED <<keys, keysByHash, revoked>>
    /\ UNCHANGED <<storage, storageOn, polVars, opVars, discVars, now>>

\* the same methods, from the end of get_key's storage read on
GetKeyResume(t) ==
    /\ tasks[t].pc = "get_read"
    /\ tasks[t].op = "rotate" => CanIssue
    /\ LET k == tasks[t].snap IN
       IF k = NoKey
       THEN /\ Settle(t, Idle, NotFound(tasks[t].op, tasks[t].key))
            /\ UNCHANGED <<keys, keysByHash, revoked>>
       ELSE AfterGetKey(t, tasks[t].op, tasks[t].key,
                        Put(keys, k.key_id, k), Put(keysByHash, k.key_hash, k.key_id))
    /\ UNCHANGED <<storage, storageOn, polVars, opVars, discVars, now>>

\* revoke_key / suspend_key / reactivate_key, from the end of save_key on
SaveResume(t) ==
    /\ tasks[t].pc = "save"
    /\ storage' = Put(storage, tasks[t].key, tasks[t].snap)
    /\ Settle(t, Idle, Ret(tasks[t].op, tasks[t].key, None, "ok", None))
    /\ revoked' = IF tasks[t].op = "revoke" THEN revoked \cup {tasks[t].key} ELSE revoked
    /\ UNCHANGED <<keys, keysByHash, storageOn, polVars, opVars, discVars, now>>

\* rotate_key, from the end of create_key's save_key to revoke_key's save_key
RotateCreateSaveResume(t) ==
    /\ tasks[t].pc = "rotate_create_save"
    /\ storage' = Put(storage, tasks[t].snap.key_id, tasks[t].snap)
    /\ keys' = RevokedIn(keys, tasks[t].key)
    /\ keysByHash' = Unhashed(keysByHash, keys[tasks[t].key])
    /\ Settle(t, Task("rotate_revoke_save", "rotate", tasks[t].key, None,
                      RevokedIn(keys, tasks[t].key)[tasks[t].key], tasks[t].succ), NoRet)
    /\ UNCHANGED <<revoked, storageOn, polVars, opVars, discVars, now>>

\* rotate_key, from the end of revoke_key's save_key to its return
RotateRevokeSaveResume(t) ==
    /\ tasks[t].pc = "rotate_revoke_save"
    /\ storage' = Put(storage, tasks[t].key, tasks[t].snap)
    /\ revoked' = revoked \cup {tasks[t].key}
    /\ Settle(t, Idle, Ret("rotate", tasks[t].key, RawOf(keys[tasks[t].succ]), "ok",
                           tasks[t].succ))
    /\ UNCHANGED <<keys, keysByHash, storageOn, polVars, opVars, discVars, now>>

\* time passes
Tick ==
    /\ now < MaxNow
    /\ now' = now + 1
    /\ ResetNotes
    /\ UNCHANGED <<polVars, operators, disk, inflight, history, outbound, capabilities,
                   hookOn, storageOn, keys, keysByHash, storage, tasks, revoked>>

(***************************************************************************)
(* KeyManager: initial state                                               *)
(***************************************************************************)
\* a key persisted by an earlier process
PersistedKey == APIKey(KeyId(1), Hash(generate_key("user", "1")), "alice", PolUser, "user", 0)

\* KeyManager(storage=None), or KeyManager(storage=adapter) with the adapter
\* empty or holding a persisted key
InitKeys ==
    /\ storageOn \in BOOLEAN
    /\ keys = EmptyMap
    /\ keysByHash = EmptyMap
    /\ storage \in IF storageOn THEN {EmptyMap, KeyId(1) :> PersistedKey} ELSE {EmptyMap}
    /\ tasks = [t \in 1..MaxTasks |-> Idle]
    /\ revoked = {}
    /\ lastKey = NoRet

\* get_key_manager() with no call made on it
InitKeysUnused == InitKeys /\ storageOn = FALSE

(***************************************************************************)
(* security/auth.py : AuthToken, AuthContext, AuthGateway                  *)
(* The gateway is built over a KeyManager without storage, so none of its  *)
(* methods suspends. Time is counted in seconds here.                      *)
(***************************************************************************)
JWT_EXPIRY == 3600
MinuteWindow == 60
HourWindow == 3600
DayWindow == 86400

MaxTokens == 2      \* tokens ever minted
MaxGrants == 4      \* check_rate_limit calls that returned allowed

\* the instants at which the clock is read
Instants == {0, 60, 61, 3600, 3601}

\* AuthToken(...)
AuthToken(token_id, k, issued_at, expires_at) ==
    [token_id |-> token_id, key_id |-> k.key_id, owner_id |-> k.owner_id,
     policy_id |-> k.policy_id, issued_at |-> issued_at, expires_at |-> expires_at,
     scope |-> k.scope]

\* AuthToken.to_dict / AuthToken.from_dict
to_dict(tok) ==
    [token_id |-> tok.token_id, key_id |-> tok.key_id, owner_id |-> tok.owner_id,
     policy_id |-> tok.policy_id, iat |-> tok.issued_at, exp |-> tok.expires_at,
     scope |-> tok.scope]
from_dict(d) ==
    [token_id |-> d.token_id, key_id |-> d.key_id, owner_id |-> d.owner_id,
     policy_id |-> d.policy_id, issued_at |-> d.iat, expires_at |-> d.exp,
     scope |-> d.scope]

\* AuthToken.is_expired
is_expired(tok, t) == t > tok.expires_at

\* the secret the gateway signs with, and one it does not
JWT_SECRET == "secret"
ForgedSecret == "forged"

\* AuthToken.encode: a JWT is its claims and the secret that signed them
encode(tok, secret) == [claims |-> to_dict(tok), signed_with |-> secret]

\* the result of a failed decode, and "no bearer token"
NoToken == AuthToken("", NoKey, 0, 0)
NoBearer == [claims |-> to_dict(NoToken), signed_with |-> ""]

\* AuthToken.decode: None for a bad signature (InvalidTokenError) and for an
\* exp claim that has passed (ExpiredSignatureError)
decode(token_str, secret, t) ==
    IF token_str.signed_with # secret THEN NoToken
    ELSE IF token_str.claims.exp <= t THEN NoToken
    ELSE from_dict(token_str.claims)

\* AuthContext(...)
AuthContext(authenticated, key, token, policy_id, owner_id, error) ==
    [authenticated |-> authenticated, key |-> key, token |-> token,
     policy_id |-> policy_id, owner_id |-> owner_id, error |-> error]

\* AuthGateway.authenticate
authenticate(api_key, bearer_token) ==
    IF api_key # None
    THEN LET id == verify_key(api_key) IN
         IF id # None
         THEN AuthContext(TRUE, id, NoToken, keys[id].policy_id, keys[id].owner_id, "")
         ELSE AuthContext(FALSE, None, NoToken, None, "", "key refused")
    ELSE IF bearer_token # NoBearer
    THEN LET token == decode(bearer_token, JWT_SECRET, now) IN
         IF token = NoToken
         THEN AuthContext(FALSE, None, NoToken, None, "", "Invalid token")
         ELSE IF is_expired(token, now)
         THEN AuthContext(FALSE, None, NoToken, None, "", "Token expired")
         ELSE AuthContext(TRUE,
                          IF token.key_id \in DOMAIN keys THEN token.key_id ELSE None,
                          token, token.policy_id, token.owner_id, "")
    ELSE AuthContext(FALSE, None, NoToken, None, "", "No authentication provided")

\* what the latest AuthGateway call did
Auth(op, api_key, bearer, ctx, allowed, reason) ==
    [op |-> op, api_key |-> api_key, bearer |-> bearer, ctx |-> ctx,
     allowed |-> allowed, reason |-> reason]
NoContext == AuthContext(FALSE, None, NoToken, None, "", "")
NoAuth == Auth("", None, NoBearer, NoContext, FALSE, "")

\* the bearer strings presented to the gateway
Bearers == {encode(tok, JWT_SECRET) : tok \in tokens}
               \cup {encode(tok, ForgedSecret) : tok \in tokens}

AuthKeyFrame ==
    /\ lastKey' = NoRet
    /\ UNCHANGED <<storageOn, keys, keysByHash, storage, tasks, revoked>>

AuthFrame ==
    /\ lastInv' = NoInv /\ lastDisc' = NoDisc
    /\ UNCHANGED <<polVars, operators, disk, inflight, history, outbound, capabilities, hookOn,
                   now>>
    /\ UNCHANGED <<netVars, laterVars>>

\* a step of another subsystem, seen from the gateway
AuthIdle == lastAuth' = NoAuth /\ UNCHANGED <<tokens, rateLimits, grants>> /\ UNCHANGED <<netVars, laterVars>>

\* AuthGateway.authenticate(api_key=..., bearer_token=...)
Authenticate(api_key, bearer) ==
    /\ lastAuth' = Auth("authenticate", api_key, bearer, authenticate(api_key, bearer),
                        FALSE, "")
    /\ UNCHANGED <<tokens, rateLimits, grants>>
    /\ AuthKeyFrame /\ AuthFrame

\* AuthGateway.create_token(api_key)
CreateToken(api_key) ==
    /\ Cardinality(tokens) < MaxTokens
    /\ LET id == verify_key(api_key) IN
       IF id = None
       THEN /\ lastAuth' = Auth("create_token", api_key, NoBearer, NoContext, FALSE, "")
            /\ UNCHANGED tokens
       ELSE LET tok == AuthToken(ToString(Cardinality(tokens) + 1), keys[id], now,
                                 now + JWT_EXPIRY)
            IN  /\ tokens' = tokens \cup {tok}
                /\ lastAuth' = Auth("create_token", api_key, encode(tok, JWT_SECRET),
                                    NoContext, TRUE, "")
    /\ UNCHANGED <<rateLimits, grants>>
    /\ AuthKeyFrame /\ AuthFrame

\* AuthGateway.refresh_token(token_str)
RefreshToken(bearer) ==
    /\ Cardinality(tokens) < MaxTokens
    /\ LET old == decode(bearer, JWT_SECRET, now) IN
       IF \/ old = NoToken
          \/ old.key_id \notin DOMAIN keys
          \/ ~is_valid(keys[old.key_id], now)
       THEN /\ lastAuth' = Auth("refresh_token", None, bearer, NoContext, FALSE, "")
            /\ UNCHANGED tokens
       ELSE LET tok == AuthToken(ToString(Cardinality(tokens) + 1), keys[old.key_id],
                                 now, now + JWT_EXPIRY)
            IN  /\ tokens' = tokens \cup {tok}
                /\ lastAuth' = Auth("refresh_token", None, encode(tok, JWT_SECRET),
                                    NoContext, TRUE, "")
    /\ UNCHANGED <<rateLimits, grants>>
    /\ AuthKeyFrame /\ AuthFrame

\* ---- check_rate_limit ----
Window(count, start) == [count |-> count, start |-> start]
NewWindows(t) ==
    [minute |-> Window(0, t), hour |-> Window(0, t), day |-> Window(0, t)]

\* "Reset windows if needed"
LazyReset(w, length, t) == IF t - w.start > length THEN Window(0, t) ELSE w
ResetWindows(rl, t) ==
    [minute |-> LazyReset(rl.minute, MinuteWindow, t),
     hour   |-> LazyReset(rl.hour, HourWindow, t),
     day    |-> LazyReset(rl.day, DayWindow, t)]

\* a limit that is reached only once it has been passed
LimitPassed(count, limit) == count > limit

\* "Check limits": the reason of the first limit reached, "OK" when none is
LimitReached(count, limit) == count >= limit
CheckLimits(rl, limits) ==
    IF LimitReached(rl.minute.count, limits.requests_per_minute)
    THEN "Rate limit exceeded (per minute)"
    ELSE IF LimitReached(rl.hour.count, limits.requests_per_hour)
    THEN "Rate limit exceeded (per hour)"
    ELSE IF LimitReached(rl.day.count, limits.requests_per_day)
    THEN "Rate limit exceeded (per day)"
    ELSE "OK"

\* "Increment counters"
Increment(rl) ==
    [minute |-> Window(rl.minute.count + 1, rl.minute.start),
     hour   |-> Window(rl.hour.count + 1, rl.hour.start),
     day    |-> Window(rl.day.count + 1, rl.day.start)]

\* AuthGateway.check_rate_limit(context)
CheckRateLimit(api_key, context) ==
    /\ Len(grants) < MaxGrants
    /\ IF ~context.authenticated \/ context.key = None
       THEN /\ lastAuth' = Auth("check_rate_limit", api_key, NoBearer, context, TRUE, "OK")
            /\ UNCHANGED <<rateLimits, grants>>
       ELSE IF context.policy_id \notin DOMAIN policies
       THEN /\ lastAuth' = Auth("check_rate_limit", api_key, NoBearer, context, FALSE,
                                "Policy not found")
            /\ UNCHANGED <<rateLimits, grants>>
       ELSE LET key_id == context.key
                limits == policies[context.policy_id].rate_limits
                rl0    == IF key_id \in DOMAIN rateLimits THEN rateLimits[key_id]
                          ELSE NewWindows(now)
                rl     == ResetWindows(rl0, now)
                reason == CheckLimits(rl, limits)
            IN  /\ lastAuth' = Auth("check_rate_limit", api_key, NoBearer, context,
                                    reason = "OK", reason)
                /\ IF reason = "OK"
                   THEN /\ rateLimits' = Put(rateLimits, key_id, Increment(rl))
                        /\ grants' = Append(grants, [key |-> key_id, at |-> now])
                   ELSE /\ rateLimits' = Put(rateLimits, key_id, rl)
                        /\ UNCHANGED grants
    /\ UNCHANGED tokens
    /\ AuthKeyFrame /\ AuthFrame

\* a request with an API key: authenticate, then check_rate_limit on the context
RateLimitedRequest(api_key) == CheckRateLimit(api_key, authenticate(api_key, NoBearer))

\* rate limits an administrator gives a policy
RateInputs == {RateLimit(2, 1000, 10000), RateLimit(2, 3, 10000)}

\* PolicyEngine.update_policy(policy_id, {"rate_limits": rl}), before any request
UpdateRateLimits(pid, rl) ==
    /\ rateLimits = EmptyMap
    /\ IF pid \notin DOMAIN policies
       THEN UNCHANGED polVars
       ELSE /\ policies' = [policies EXCEPT ![pid].rate_limits = rl]
            /\ policyOrder' = policyOrder
    /\ PolicyFrame

\* time passes
Elapse(t) ==
    /\ t > now
    /\ now' = t
    /\ ResetNotes
    /\ UNCHANGED <<polVars, operators, disk, inflight, history, outbound, capabilities,
                   hookOn, storageOn, keys, keysByHash, storage, tasks, revoked>>

\* AuthGateway()
InitAuth ==
    /\ tokens = {}
    /\ rateLimits = EmptyMap
    /\ grants = <<>>
    /\ lastAuth = NoAuth

(***************************************************************************)
(* core/network.py : Signal, ReactiveSlot, ReactiveBinding,                *)
(* EmergentNetwork                                                         *)
(* Coroutines of the network run to their next suspension: the signal loop *)
(* yields in asyncio.sleep and inside registry.invoke, and nowhere else.   *)
(* Its run between two suspensions is written as a chain of steps, one per *)
(* assignment of a slot state, during which no other coroutine moves.      *)
(* Payloads, paths and timestamps of signals are left out: no branch of    *)
(* the network reads them (payload_contains patterns are not used).        *)
(***************************************************************************)
MaxSlots    == 2    \* slots create_slot makes in one behaviour
MaxBindings == 1    \* bindings add_binding puts on one slot
MaxSignals  == 2    \* signals queued in the network at one time
MaxFwd      == 2    \* "fwd_" prefixes told apart in a signal_id
MaxBelow    == 1    \* ttl values this far below 0, or further, are not told apart

\* slot_id = f"slot_{uuid}": the k-th slot created
SlotId(k) == <<"slot", ToString(k)>>
SlotIds   == {SlotId(k) : k \in 1..MaxSlots}

\* Signal(signal_id, signal_type, source_slot, target_slot, ttl); seq is the
\* position of the signal among the signals appended to the queue it is in
Signal(signal_id, signal_type, source_slot, target_slot, ttl) ==
    [signal_id |-> signal_id, signal_type |-> signal_type, source_slot |-> source_slot,
     target_slot |-> target_slot, ttl |-> ttl, seq |-> 0]

NoSignal == Signal(<<>>, "", None, None, 0)

\* ttl - 1
Hop(ttl) == IF ttl > 0 - MaxBelow THEN ttl - 1 ELSE 0 - MaxBelow

\* f"fwd_{signal.signal_id}"
Fwd(signal_id) == IF Len(signal_id) <= MaxFwd THEN <<"fwd_">> \o signal_id ELSE signal_id

\* ReactiveSlot as create_slot builds it
ReactiveSlot(slot_id, t) ==
    [slot_id |-> slot_id, state |-> "listening", operator_ids |-> {},
     connections |-> {}, signal_queue |-> <<>>, bindings |-> <<>>,
     last_activity |-> t, error_count |-> 0,
     appended |-> 0]        \* number the next signal appended to signal_queue gets

\* trigger_pattern: {} or {"signal_type": t}
Pattern(has_type, signal_type) == [has_type |-> has_type, signal_type |-> signal_type]
AnySignal == Pattern(FALSE, "")

\* ReactiveBinding as add_binding builds it (rate controls at their defaults)
ReactiveBinding(trigger_pattern, action_type, action_config) ==
    [trigger_pattern |-> trigger_pattern, action_type |-> action_type,
     action_config |-> action_config,
     throttle_ms |-> 0, max_invocations |-> -1,
     invocation_count |-> 0]    \* counted up to 1

\* action_config of the three action types
Config(target_slot, operator_id, raises) ==
    [target_slot |-> target_slot, operator_id |-> operator_id, raises |-> raises]

\* ReactiveBinding.matches
matches(binding, signal) ==
    binding.trigger_pattern.has_type =>
        signal.signal_type = binding.trigger_pattern.signal_type

\* ReactiveBinding.can_invoke (last_invocation is read only when throttle_ms > 0)
can_invoke(binding) ==
    ~(binding.max_invocations >= 0
        /\ binding.invocation_count >= binding.max_invocations)

\* binding.invocation_count += 1
Invoked(binding) == [binding EXCEPT !.invocation_count = 1]

\* a change of slot.state made by one assignment
Change(slot_id, from, to, event) ==
    [slot |-> slot_id, from |-> from, to |-> to, event |-> event]

\* what a step of the network did: the slot states it assigned, the signals
\* it appended to queues and the signal it took from a queue
Net(op, slot_id, changes, appended, taken) ==
    [op |-> op, slot |-> slot_id, changes |-> changes, appended |-> appended,
     taken |-> taken]
NoNet == Net("", None, {}, {}, NoSignal)

\* the _signal_loop task: not started ("off"), in asyncio.sleep ("sleep"),
\* at slot number i of the n slots it iterates ("scan"), at binding j of slot
\* number i with its signal ("bind"), suspended in registry.invoke ("await")
Loop(at, i, n, j, signal) == [at |-> at, i |-> i, n |-> n, j |-> j, signal |-> signal]
LoopOff   == Loop("off", 0, 0, 0, NoSignal)
LoopSleep == Loop("sleep", 0, 0, 0, NoSignal)

\* the event loop can run another coroutine
Yielded == loop.at \in {"off", "sleep", "await"}

\* number of signals in the queues
RECURSIVE Queued(_, _)
Queued(sl, ids) ==
    IF ids = {} THEN 0
    ELSE LET id == CHOOSE x \in ids : TRUE
         IN  Len(sl[id].signal_queue) + Queued(sl, ids \ {id})

\* slot.signal_queue.append(signal)
Enqueue(sl, target, signal) ==
    [sl EXCEPT ![target].signal_queue = Append(@, [signal EXCEPT !.seq = sl[target].appended]),
               ![target].appended = @ + 1]

\* numbering of a queue after its head was taken: from 0 for the oldest left
Renumber(slot) ==
    LET q == slot.signal_queue
        least == IF q = <<>> THEN slot.appended
                 ELSE CHOOSE m \in {q[k].seq : k \in 1..Len(q)} :
                            \A k \in 1..Len(q) : m <= q[k].seq
    IN  [slot EXCEPT !.signal_queue = [k \in 1..Len(q) |-> [q[k] EXCEPT !.seq = @ - least]],
                     !.appended = @ - least]

\* the broadcast copies of send_signal, one per connection that is a slot
RECURSIVE Broadcast(_, _, _)
Broadcast(sl, signal, conns) ==
    IF conns = {} THEN sl
    ELSE LET conn_id == CHOOSE x \in conns : TRUE
             sig_copy == Signal(signal.signal_id, signal.signal_type, signal.source_slot,
                                conn_id, Hop(signal.ttl))
         IN  Broadcast(IF conn_id \in DOMAIN sl THEN Enqueue(sl, conn_id, sig_copy) ELSE sl,
                       signal, conns \ {conn_id})

\* EmergentNetwork.send_signal: the slots after it
send_signal(sl, signal) ==
    IF signal.target_slot # None
    THEN IF signal.target_slot \in DOMAIN sl
         THEN Enqueue(sl, signal.target_slot, signal)
         ELSE sl
    ELSE IF signal.source_slot \in DOMAIN sl
         THEN Broadcast(sl, signal, sl[signal.source_slot].connections)
         ELSE sl

\* the signals a step appended to the queues
Appended(old, new) ==
    UNION {{new[id].signal_queue[k] : k \in Len(old[id].signal_queue) + 1
                                                ..Len(new[id].signal_queue)}
            : id \in DOMAIN old}

\* slot.error_count is followed up to this number
MaxErrors == 2

\* an operator_id that is no string but a list: dict.get(operator_id) in
\* registry.get raises TypeError, outside the try of registry.invoke
Unhashable == <<"op", "[]">>

\* the registry, the policies, the keys and the gateway, for a network step
\* that calls none of them
NetFrame ==
    /\ ResetNotes
    /\ UNCHANGED <<polVars, operators, disk, inflight, history, outbound, capabilities, hookOn,
                   storageOn, keys, keysByHash, storage, tasks, revoked, now>>
    /\ UNCHANGED <<authVars, laterVars>>

\* _tasks holds at most this many tasks
MaxLoopTasks == 4

\* an asyncio task start() created: the coroutine it runs, and whether it has
\* not ended yet
LoopTask(kind, alive) == [kind |-> kind, alive |-> alive]

\* the live tasks of one kind
Alive(kind) == {k \in 1..Len(_tasks) : _tasks[k].kind = kind /\ _tasks[k].alive}

\* EmergentNetwork.__init__: no task, and no stop() running
InitLife ==
    /\ _tasks = <<>>
    /\ stopAt = 0

\* what start() and stop() leave alone
LifeFrame ==
    /\ ResetNotes
    /\ UNCHANGED <<polVars, operators, disk, history, outbound, capabilities, hookOn,
                   storageOn, keys, keysByHash, storage, tasks, revoked, now>>
    /\ UNCHANGED <<authVars, pipeVars, checkVars, memVars, sessVars>>

\* EmergentNetwork.start
Start ==
    /\ ~_running
    /\ Len(_tasks) + 2 <= MaxLoopTasks
    /\ _running' = TRUE
    /\ loop' = LoopSleep
    /\ _tasks' = _tasks \o <<LoopTask("signal", TRUE), LoopTask("health", TRUE)>>
    /\ lastNet' = Net("start", None, {}, {}, NoSignal)
    /\ UNCHANGED <<slots, calls, inflight, stopAt>>
    /\ LifeFrame

\* task.cancel() and the end of the task: CancelledError is raised at the
\* await the task is suspended in, and no "except Exception" catches it; the
\* signal loop suspended in registry.invoke leaves the invocation unrecorded
CancelTask(k) ==
    /\ _tasks' = [_tasks EXCEPT ![k].alive = FALSE]
    /\ IF _tasks[k].alive /\ _tasks[k].kind = "signal"
       THEN /\ loop' = LoopOff
            /\ calls' = {p \in calls : p.by # "binding"}
            /\ inflight' = {c \in inflight :
                                \A p \in calls : p.by = "binding" => c.n # p.call}
       ELSE UNCHANGED <<loop, calls, inflight>>

\* EmergentNetwork.stop, up to its first "await task"
StopCall ==
    /\ Yielded
    /\ stopAt = 0
    /\ _running' = FALSE
    /\ IF _tasks = <<>>
       THEN UNCHANGED <<_tasks, stopAt, loop, calls, inflight>>
       ELSE CancelTask(1) /\ stopAt' = 1
    /\ lastNet' = Net("stop", None, {}, {}, NoSignal)
    /\ UNCHANGED slots
    /\ LifeFrame

\* stop() from the end of one "await task": the next turn of "for task in
\* self._tasks", which sees the tasks appended meanwhile, or _tasks.clear()
StopResume ==
    /\ Yielded
    /\ stopAt > 0
    /\ IF stopAt < Len(_tasks)
       THEN CancelTask(stopAt + 1) /\ stopAt' = stopAt + 1
       ELSE /\ _tasks' = <<>>
            /\ stopAt' = 0
            /\ UNCHANGED <<loop, calls, inflight>>
    /\ lastNet' = Net("stopped", None, {}, {}, NoSignal)
    /\ UNCHANGED <<slots, _running>>
    /\ LifeFrame

\* EmergentNetwork.create_slot
CreateSlot ==
    /\ Yielded
    /\ Cardinality(DOMAIN slots) < MaxSlots
    /\ LET slot_id == SlotId(Cardinality(DOMAIN slots) + 1)
       IN  /\ slots' = [x \in DOMAIN slots \cup {slot_id} |->
                            IF x = slot_id THEN ReactiveSlot(slot_id, now) ELSE slots[x]]
           /\ lastNet' = Net("create_slot", slot_id, {}, {}, NoSignal)
    /\ UNCHANGED <<_running, loop, calls>>
    /\ NetFrame

\* slot.connections.add on the side of slot_a only
ConnectOneWay(sl, slot_a, slot_b) ==
    [sl EXCEPT ![slot_a].connections = @ \cup {slot_b}]

\* slot.connections.add on both sides
Connect(sl, slot_a, slot_b) ==
    [x \in DOMAIN sl |->
        [sl[x] EXCEPT !.connections =
            @ \cup (IF x = slot_a THEN {slot_b} ELSE {})
              \cup (IF x = slot_b THEN {slot_a} ELSE {})]]

\* EmergentNetwork.connect_slots
ConnectSlots(slot_a, slot_b) ==
    /\ Yielded
    /\ slots' = IF slot_a \in DOMAIN slots /\ slot_b \in DOMAIN slots
                THEN Connect(slots, slot_a, slot_b)
                ELSE slots
    /\ lastNet' = Net("connect_slots", slot_a, {}, {}, NoSignal)
    /\ UNCHANGED <<_running, loop, calls>>
    /\ NetFrame

\* EmergentNetwork.add_binding
AddBinding(slot_id, binding) ==
    /\ Yielded
    /\ IF slot_id \notin DOMAIN slots
       THEN UNCHANGED slots
       ELSE /\ Len(slots[slot_id].bindings) < MaxBindings
            /\ slots' = [slots EXCEPT ![slot_id].bindings = Append(@, binding)]
    /\ lastNet' = Net("add_binding", slot_id, {}, {}, NoSignal)
    /\ UNCHANGED <<_running, loop, calls>>
    /\ NetFrame

\* EmergentNetwork.send_signal called from outside the network
SendSignal(signal) ==
    /\ Yielded
    /\ \E sl \in {send_signal(slots, signal)} :
            /\ Queued(sl, DOMAIN sl) <= MaxSignals
            /\ slots' = sl
            /\ lastNet' = Net("send_signal", signal.target_slot, {}, Appended(slots, sl),
                              NoSignal)
    /\ UNCHANGED <<_running, loop, calls>>
    /\ NetFrame

\* signal_queue.pop(): the newest signal first
pop_last(queue) == [signal |-> queue[Len(queue)], rest |-> SubSeq(queue, 1, Len(queue) - 1)]

\* signal_queue.pop(0): the signal taken and the queue left
pop_first(queue) == [signal |-> Head(queue), rest |-> Tail(queue)]

\* _signal_loop: "if slot.signal_queue and slot.state in (LISTENING, IDLE)"
Ready(slot) == slot.signal_queue # <<>> /\ slot.state \in {"listening", "idle"}

\* _signal_loop from the end of its sleep, or from the end of the last slot's
\* processing, to the next slot that has a signal to take; _process_signal
\* up to its loop over the bindings
LoopScan ==
    /\ _running
    /\ loop.at \in {"sleep", "scan"}
    /\ LET first == IF loop.at = "sleep" THEN 1 ELSE loop.i
           n     == IF loop.at = "sleep" THEN Cardinality(DOMAIN slots) ELSE loop.n
           ready == {k \in first..n : Ready(slots[SlotId(k)])}
       IN  IF ready = {}
           THEN /\ loop.at = "scan"
                /\ loop' = LoopSleep
                /\ lastNet' = Net("sleep", None, {}, {}, NoSignal)
                /\ UNCHANGED slots
           ELSE LET i    == CHOOSE k \in ready : \A m \in ready : k <= m
                    id   == SlotId(i)
                    slot == slots[id]
                    took == pop_first(slot.signal_queue)
                IN  /\ slots' = [slots EXCEPT ![id] =
                                    Renumber([slot EXCEPT !.signal_queue = took.rest,
                                                          !.state = "processing",
                                                          !.last_activity = now])]
                    /\ loop' = Loop("bind", i, n, 1, took.signal)
                    /\ lastNet' = Net("dequeue", id,
                                      {Change(id, slot.state, "processing", "dequeue")},
                                      {}, took.signal)
    /\ UNCHANGED <<_running, calls>>
    /\ NetFrame

\* invoke_operator: the slot when registry.invoke is called
Executing(sl, slot_id, operator_id, t) ==
    [sl EXCEPT ![slot_id].operator_ids = @ \cup {operator_id},
               ![slot_id].state = "executing",
               ![slot_id].last_activity = t]

\* a suspended invoke_operator: the outbound call it waits for, its slot, and
\* whether a binding or a caller of the network made it
Call(n, slot_id, by) == [call |-> n, slot |-> slot_id, by |-> by]

\* _execute_binding for a forward binding: the derived signal
Forwarded(slot_id, binding, signal) ==
    Signal(Fwd(signal.signal_id), signal.signal_type, slot_id,
           binding.action_config.target_slot, Hop(signal.ttl))

\* _process_signal: one turn of "for binding in slot.bindings"
LoopBind ==
    /\ loop.at = "bind"
    /\ loop.j <= Len(slots[SlotId(loop.i)].bindings)
    /\ LET id      == SlotId(loop.i)
           slot    == slots[id]
           binding == slot.bindings[loop.j]
           signal  == loop.signal
           next    == [loop EXCEPT !.j = @ + 1]
       IN  IF ~(matches(binding, signal) /\ can_invoke(binding))
           THEN /\ loop' = next
                /\ lastNet' = Net("no_match", id, {}, {}, NoSignal)
                /\ UNCHANGED <<slots, calls>>
                /\ NetFrame
           ELSE IF binding.action_type = "forward"
           THEN /\ \E sl \in {IF binding.action_config.target_slot # None
                              THEN send_signal(slots, Forwarded(id, binding, signal))
                              ELSE slots} :
                        /\ Queued(sl, DOMAIN sl) <= MaxSignals
                        /\ slots' = [sl EXCEPT ![id].bindings[loop.j] = Invoked(@)]
                        /\ lastNet' = Net("forward", id, {}, Appended(slots, sl), NoSignal)
                /\ loop' = next
                /\ UNCHANGED calls
                /\ NetFrame
           ELSE IF binding.action_type = "transform"
           THEN IF binding.action_config.raises
                THEN \* "except Exception" of _process_signal
                     /\ slot.error_count < MaxErrors
                     /\ slots' = [slots EXCEPT ![id].state = "error",
                                               ![id].error_count = @ + 1]
                     /\ loop' = Loop("scan", loop.i + 1, loop.n, 0, NoSignal)
                     /\ lastNet' = Net("transform", id,
                                       {Change(id, slot.state, "error", "exception")},
                                       {}, NoSignal)
                     /\ UNCHANGED calls
                     /\ NetFrame
                ELSE /\ slots' = [slots EXCEPT ![id].bindings[loop.j] = Invoked(@)]
                     /\ loop' = next
                     /\ lastNet' = Net("transform", id, {}, {}, NoSignal)
                     /\ UNCHANGED calls
                     /\ NetFrame
           ELSE \* invoke_operator
                IF binding.action_config.operator_id = None
                THEN /\ slots' = [slots EXCEPT ![id].bindings[loop.j] = Invoked(@)]
                     /\ loop' = next
                     /\ lastNet' = Net("invoke_operator", id, {}, {}, NoSignal)
                     /\ UNCHANGED calls
                     /\ NetFrame
                ELSE IF binding.action_config.operator_id = Unhashable
                THEN \* registry.invoke raises: "except Exception" of invoke_operator
                     /\ slot.error_count < MaxErrors
                     /\ slots' = [Executing(slots, id, Unhashable, now)
                                    EXCEPT ![id].state = "error",
                                           ![id].error_count = @ + 1,
                                           ![id].bindings[loop.j] = Invoked(@)]
                     /\ loop' = next
                     /\ lastNet' = Net("invoke_operator", id,
                            {Change(id, slot.state, "executing", "invoke_operator"),
                             Change(id, "executing", "error", "exception")},
                            {}, NoSignal)
                     /\ UNCHANGED calls
                     /\ NetFrame
                ELSE /\ InvokeCall(binding.action_config.operator_id, NoCtx)
                     /\ UNCHANGED <<authVars, laterVars>>
                     /\ IF lastInv'.returned
                        THEN /\ slots' = [Executing(slots, id,
                                                    binding.action_config.operator_id, now)
                                            EXCEPT ![id].state = "listening",
                                                   ![id].bindings[loop.j] = Invoked(@)]
                             /\ loop' = next
                             /\ lastNet' = Net("invoke_operator", id,
                                    {Change(id, slot.state, "executing", "invoke_operator"),
                                     Change(id, "executing", "listening", "invoked")},
                                    {}, NoSignal)
                             /\ UNCHANGED calls
                        ELSE /\ slots' = Executing(slots, id,
                                                   binding.action_config.operator_id, now)
                             /\ loop' = [loop EXCEPT !.at = "await"]
                             /\ calls' = calls \cup {Call(outbound', id, "binding")}
                             /\ lastNet' = Net("invoke_operator", id,
                                    {Change(id, slot.state, "executing", "invoke_operator")},
                                    {}, NoSignal)
    /\ UNCHANGED _running

\* invoke_operator of a binding, from the return of registry.invoke
LoopResume(p, c, outcome) ==
    /\ loop.at = "await"
    /\ p \in calls /\ p.by = "binding" /\ c.n = p.call
    /\ InvokeReturn(c, outcome)
    /\ UNCHANGED <<authVars, laterVars>>
    /\ slots' = [slots EXCEPT ![p.slot].state = "listening",
                              ![p.slot].bindings[loop.j] = Invoked(@)]
    /\ loop' = [loop EXCEPT !.at = "bind", !.j = @ + 1]
    /\ calls' = calls \ {p}
    /\ lastNet' = Net("invoked", p.slot,
                      {Change(p.slot, slots[p.slot].state, "listening", "invoked")},
                      {}, NoSignal)
    /\ UNCHANGED _running

\* _process_signal after its loop over the bindings
LoopDone ==
    /\ loop.at = "bind"
    /\ loop.j > Len(slots[SlotId(loop.i)].bindings)
    /\ LET id == SlotId(loop.i)
       IN  /\ slots' = [slots EXCEPT ![id].state = "listening"]
           /\ lastNet' = Net("done", id,
                             {Change(id, slots[id].state, "listening", "done")},
                             {}, NoSignal)
    /\ loop' = Loop("scan", loop.i + 1, loop.n, 0, NoSignal)
    /\ UNCHANGED <<_running, calls>>
    /\ NetFrame

\* EmergentNetwork.invoke_operator called from outside the network, up to
\* its return or its suspension in registry.invoke
InvokeOperatorCall(slot_id, operator_id) ==
    /\ Yielded
    /\ IF slot_id \notin DOMAIN slots
       THEN /\ lastNet' = Net("invoke_operator", slot_id, {}, {}, NoSignal)
            /\ UNCHANGED <<slots, calls>>
            /\ NetFrame
       ELSE /\ InvokeCall(operator_id, NoCtx)
            /\ UNCHANGED <<authVars, laterVars>>
            /\ IF lastInv'.returned
               THEN /\ slots' = [Executing(slots, slot_id, operator_id, now)
                                    EXCEPT ![slot_id].state = "listening"]
                    /\ lastNet' = Net("invoke_operator", slot_id,
                            {Change(slot_id, slots[slot_id].state, "executing",
                                    "invoke_operator"),
                             Change(slot_id, "executing", "listening", "invoked")},
                            {}, NoSignal)
                    /\ UNCHANGED calls
               ELSE /\ slots' = Executing(slots, slot_id, operator_id, now)
                    /\ calls' = calls \cup {Call(outbound', slot_id, "caller")}
                    /\ lastNet' = Net("invoke_operator", slot_id,
                            {Change(slot_id, slots[slot_id].state, "executing",
                                    "invoke_operator")},
                            {}, NoSignal)
    /\ UNCHANGED <<_running, loop>>

\* invoke_operator of a caller, from the return of registry.invoke
InvokeOperatorReturn(p, c, outcome) ==
    /\ Yielded
    /\ p \in calls /\ p.by = "caller" /\ c.n = p.call
    /\ InvokeReturn(c, outcome)
    /\ UNCHANGED <<authVars, laterVars>>
    /\ slots' = [slots EXCEPT ![p.slot].state = "listening"]
    /\ calls' = calls \ {p}
    /\ lastNet' = Net("invoked", p.slot,
                      {Change(p.slot, slots[p.slot].state, "listening", "invoked")},
                      {}, NoSignal)
    /\ UNCHANGED <<_running, loop>>

\* the idle times of _health_loop, in seconds
ErrorIdle  == 60
ListenIdle == 300

\* _health_loop: "Reset error state if healthy"
Recovered(slot, t) ==
    IF slot.state = "error" /\ t - slot.last_activity > ErrorIdle
    THEN [slot EXCEPT !.state = "listening", !.error_count = 0]
    ELSE slot

\* _health_loop: "Mark inactive slots"
Rested(slot, t) ==
    IF t - slot.last_activity > ListenIdle /\ slot.state = "listening"
    THEN [slot EXCEPT !.state = "idle"]
    ELSE slot

\* one pass of _health_loop over the slots
HealthCheck ==
    /\ _running
    /\ Alive("health") # {}
    /\ Yielded
    /\ slots' = [id \in DOMAIN slots |-> Rested(Recovered(slots[id], now), now)]
    /\ slots' # slots
    /\ lastNet' = Net("health", None,
            {Change(id, slots[id].state, Recovered(slots[id], now).state, "recovered")
                : id \in {x \in DOMAIN slots : Recovered(slots[x], now) # slots[x]}}
            \cup
            {Change(id, Recovered(slots[id], now).state, "idle", "rested")
                : id \in {x \in DOMAIN slots :
                            Rested(Recovered(slots[x], now), now) # Recovered(slots[x], now)}},
            {}, NoSignal)
    /\ UNCHANGED <<_running, loop, calls>>
    /\ NetFrame

\* a step outside the network
NetIdle ==
    /\ lastNet' = NoNet
    /\ UNCHANGED <<slots, _running, loop, calls>>
    /\ UNCHANGED <<authVars, laterVars>>

\* the instants at which the network is observed, in seconds
NetInstants == {0, 61, 301}

\* the signals sent into the network
Signals ==
    {Signal(<<"sig">>, "data", SlotId(1), SlotId(1), 1),
     Signal(<<"sig">>, "event", SlotId(1), SlotId(2), 0),
     Signal(<<"sig">>, "data", SlotId(1), None, 1)}

\* the bindings added to slots
ForwardBindings ==
    {ReactiveBinding(AnySignal, "forward", Config(SlotId(1), None, FALSE)),
     ReactiveBinding(Pattern(TRUE, "data"), "forward", Config(SlotId(2), None, FALSE))}

ActingBindings ==
    {ReactiveBinding(AnySignal, "invoke_operator", Config(None, OpId(1), FALSE)),
     ReactiveBinding(AnySignal, "transform", Config(None, None, TRUE))}

\* EmergentNetwork(registry)
InitNet ==
    /\ slots = EmptyMap
    /\ _running = FALSE
    /\ loop = LoopOff
    /\ calls = {}
    /\ lastNet = NoNet

(***************************************************************************)
(* core/operators.py : OperatorPipeline                                    *)
(* Inputs and outputs are sequences of strings; {} and None are <<>>.      *)
(***************************************************************************)
MaxSteps == 2       \* steps add() puts on the pipeline
MaxPipeCalls == 2   \* invocations recorded or in flight while a pipeline runs

\* the operator ids pipelines are built from
PipeOps == {OpId(1), OpId(2)}

\* response bodies of the outbound calls
Bodies == {"a", "b"}

\* a transform given to add()
Transformed(inputs) == <<"tf">> \o inputs

\* OperatorInvocation as execute() sees it; inputs is what invoke() was given
Invocation(operator_id, inputs, success, outputs, error) ==
    [operator_id |-> operator_id, inputs |-> inputs, success |-> success,
     outputs |-> outputs, error |-> error]

\* invocation.outputs after the outbound call: _extract_outputs(body) for an
\* HTTP response of any status, the tool result for MCP, None otherwise
OutputsOf(c, outcome, body) ==
    IF c.method = "MCP"
    THEN IF outcome = "2xx" THEN <<"content", body>> ELSE None
    ELSE IF outcome \in {"2xx", "5xx"} THEN <<"raw", body>> ELSE None

\* the dict execute() returns; NoResult while it has not returned
Result(success, failed_at_step, final_output, results) ==
    [returned |-> TRUE, success |-> success, failed_at_step |-> failed_at_step,
     final_output |-> final_output, results |-> results]
NoResult ==
    [returned |-> FALSE, success |-> FALSE, failed_at_step |-> -1,
     final_output |-> None, results |-> <<>>]

\* OperatorPipeline(registry): steps and transforms as add() left them, and
\* the execute() call on it: at |-> "build" before execute() is called,
\* "step" at the top of its loop, "await" inside registry.invoke, "done"
\* after its return; before |-> the call_count of the operators when
\* execute() was called
Pipeline(steps, transforms, at, idx, current_inputs, results, before, result) ==
    [steps |-> steps, transforms |-> transforms, at |-> at, idx |-> idx,
     current_inputs |-> current_inputs, results |-> results, before |-> before,
     result |-> result]

\* OperatorPipeline.__init__
InitPipeline ==
    pipeline = Pipeline(<<>>, {}, "build", 0, None, <<>>, EmptyMap, NoResult)

\* the rest of the state, for a step of the pipeline that calls no registry
PipeFrame ==
    /\ ResetNotes
    /\ UNCHANGED <<polVars, operators, disk, inflight, history, outbound, capabilities, hookOn,
                   storageOn, keys, keysByHash, storage, tasks, revoked, now>>
    /\ UNCHANGED <<authVars, netVars, pastPipe>>

\* a step outside the pipeline
PipeIdle == UNCHANGED <<authVars, netVars, pipeline, pastPipe>>

\* OperatorPipeline.add(operator_id, transform)
PipelineAdd(operator_id, with_transform) ==
    /\ pipeline.at = "build"
    /\ Len(pipeline.steps) < MaxSteps
    /\ pipeline' = [pipeline EXCEPT
                        !.steps = Append(@, operator_id),
                        !.transforms = IF with_transform
                                       THEN @ \cup {Len(pipeline.steps)}
                                       ELSE @]
    /\ PipeFrame

\* "if idx in self.transforms: current_inputs = self.transforms[idx](current_inputs)"
StepInputs(p) ==
    IF p.idx \in p.transforms THEN Transformed(p.current_inputs) ELSE p.current_inputs

\* the return of execute() when its loop ends
Finished(p) ==
    [p EXCEPT !.at = "done",
              !.result = Result(TRUE, -1, p.current_inputs, p.results)]

\* execute() that goes on after a failed invocation
AfterInvokeGoesOn(p, invocation) ==
    LET next == [p EXCEPT !.at = "step", !.idx = @ + 1,
                          !.results = Append(p.results, invocation),
                          !.current_inputs = invocation.outputs]
    IN  IF next.idx < Len(next.steps) THEN next ELSE Finished(next)

\* execute() after registry.invoke returned invocation: the failure return,
\* the next turn of the loop, or the return after the last step
AfterInvoke(p, invocation) ==
    LET results == Append(p.results, invocation)
    IN  IF ~invocation.success
        THEN [p EXCEPT !.at = "done", !.results = results,
                       !.result = Result(FALSE, p.idx, None, results)]
        ELSE LET next == [p EXCEPT !.at = "step", !.idx = @ + 1, !.results = results,
                                   !.current_inputs = invocation.outputs]
             IN  IF next.idx < Len(next.steps) THEN next ELSE Finished(next)

\* OperatorPipeline.execute(initial_inputs) up to its first registry.invoke
PipelineExecute(initial_inputs) ==
    /\ pipeline.at = "build"
    /\ \E p \in {[pipeline EXCEPT !.at = "step", !.idx = 0,
                                  !.current_inputs = initial_inputs,
                                  !.before = [id \in DOMAIN operators |->
                                                 operators[id].call_count]]} :
            pipeline' = IF Len(p.steps) = 0 THEN Finished(p) ELSE p
    /\ PipeFrame

\* execute(): one turn of its loop, up to the return of registry.invoke or
\* to its outbound call
PipelineInvoke ==
    /\ pipeline.at = "step"
    /\ history + Cardinality(inflight) < MaxPipeCalls
    /\ invoke(pipeline.steps[pipeline.idx + 1], NoCtx)
    /\ LET p == [pipeline EXCEPT !.current_inputs = StepInputs(pipeline)]
       IN  pipeline' =
              IF lastInv'.returned
              THEN AfterInvoke(p, Invocation(lastInv'.operator_id, p.current_inputs,
                                             lastInv'.success, None, lastInv'.error))
              ELSE [p EXCEPT !.at = "await"]
    /\ UNCHANGED <<authVars, netVars, pastPipe>>

\* execute() from the end of the outbound call of its registry.invoke
PipelineResume(c, outcome, body) ==
    /\ pipeline.at = "await"
    /\ InvokeReturn(c, outcome)
    /\ pipeline' = AfterInvoke(pipeline,
                        Invocation(c.operator_id, pipeline.current_inputs,
                                   lastInv'.success, OutputsOf(c, outcome, body),
                                   lastInv'.error))
    /\ UNCHANGED <<authVars, netVars, pastPipe>>

(***************************************************************************)
(* security/policies.py : the PolicyEngine's checks on created policies    *)
(***************************************************************************)
MaxCustom == 1              \* policies created through create_policy and alive at once

IpA == "10.0.0.1"
IpB == "10.0.0.2"
NoIp == ""                  \* a context without "ip": context.get("ip", "")
Wildcard == <<"*">>         \* the resource id "*"

EndAdmin == <<"/api", "/admin">>
EndOps   == <<"/api", "/operators">>
EndRoot  == <<"/health">>

\* **kwargs of create_policy: the lists and the restrictions of the policy
Kwargs(aops, dops, aeps, deps, restrictions) ==
    [allowed_operators |-> aops, denied_operators |-> dops,
     allowed_endpoints |-> aeps, denied_endpoints |-> deps,
     restrictions |-> restrictions]

WhiteListed == [DefaultRestriction EXCEPT !.ip_whitelist = {IpA}]
BlackListed == [DefaultRestriction EXCEPT !.ip_blacklist = {IpB}]

KwargsSet ==
    { Kwargs({}, {}, {}, {}, DefaultRestriction),
      Kwargs({OpId(1)}, {}, {<<"/api">>}, {}, DefaultRestriction),
      Kwargs({OpId(1)}, {OpId(1)}, {<<"/api">>}, {EndAdmin}, DefaultRestriction),
      Kwargs({}, {OpId(2)}, {}, {EndAdmin}, DefaultRestriction),
      Kwargs({}, {}, {}, {}, WhiteListed),
      Kwargs({}, {}, {}, {}, BlackListed) }

PermissionSets ==
    { {Permission("operator", None, LvEXECUTE), Permission("system", None, LvADMIN)},
      {Permission("operator", Wildcard, LvEXECUTE), Permission("system", Wildcard, LvADMIN)},
      {Permission("operator", OpId(1), LvWRITE), Permission("operator", None, LvREAD),
       Permission("system", EndOps, LvEXECUTE)} }

\* ids create_policy computes: "pol_" + a digest of name and time
CustomIds == {PolCustom}
CheckedIds == {PolCustom, PolReadonly}
CheckedOps == {OpId(1), OpId(2)}
CheckedEndpoints == {EndAdmin, EndOps, EndRoot}
CheckedIps == {NoIp, IpA, IpB}
Levels == {LvNONE, LvREAD, LvEXECUTE, LvWRITE, LvADMIN, LvMASTER}

\* what the latest check was called with and what it returned
Check(op, pid, rt, rid, required, ip, result) ==
    [op |-> op, policy_id |-> pid, resource_type |-> rt, resource_id |-> rid,
     required |-> required, ip |-> ip, result |-> result]
NoCheck == Check("", None, "", None, LvNONE, NoIp, Refused(""))

InitChecks == lastCheck = NoCheck

CheckFrame ==
    /\ ResetNotes
    /\ UNCHANGED <<operators, disk, inflight, history, outbound, capabilities, hookOn,
                   storageOn, keys, keysByHash, storage, tasks, revoked, now>>
    /\ UNCHANGED <<authVars, netVars, pipeVars, memVars, lastVars>>

\* a step of the engine that is no check
CheckIdle == lastCheck' = NoCheck /\ UNCHANGED <<authVars, netVars, pipeVars, memVars, lastVars>>

\* PolicyEngine.create_policy without storage
create_policy(pid, permissions, kwargs) ==
    /\ Cardinality(DOMAIN policies \cap CustomIds) < MaxCustom
    /\ pid \notin DOMAIN policies
    /\ policies' = Put(policies, pid,
            [NewPolicy(pid, permissions) EXCEPT
                !.allowed_operators = kwargs.allowed_operators,
                !.denied_operators  = kwargs.denied_operators,
                !.allowed_endpoints = kwargs.allowed_endpoints,
                !.denied_endpoints  = kwargs.denied_endpoints,
                !.restrictions      = kwargs.restrictions])
    /\ policyOrder' = Touch(policyOrder, pid)
    /\ PolicyFrame
    /\ CheckIdle

\* await engine.check_access(policy_id, resource_type, resource_id, required, {"ip": ip})
CheckAccess(pid, rt, rid, required, ip) ==
    /\ lastCheck' = Check("check_access", pid, rt, rid, required, ip,
                          check_access(policies, pid, rt, rid, required, ip, now))
    /\ UNCHANGED polVars
    /\ CheckFrame

\* await engine.check_operator_access(policy_id, operator_id, {"ip": ip})
CheckOperatorAccess(pid, operator_id, ip) ==
    /\ lastCheck' = Check("check_operator_access", pid, "operator", operator_id, LvEXECUTE, ip,
                          check_operator_access(policies, pid, operator_id, ip, now))
    /\ UNCHANGED polVars
    /\ CheckFrame

\* await engine.check_endpoint_access(policy_id, endpoint, method, {"ip": ip})
CheckEndpointAccess(pid, endpoint, method, ip) ==
    /\ lastCheck' = Check("check_endpoint_access", pid, "system", endpoint,
                          method_level(method), ip,
                          check_endpoint_access(policies, pid, endpoint, method, ip, now))
    /\ UNCHANGED polVars
    /\ CheckFrame

(***************************************************************************)
(* core/memtools.py : MemtoolRegistry without storage and without embedder *)
(***************************************************************************)
MaxContents == 2            \* distinct contents ever stored
MaxAccess   == 1            \* accesses counted per memory

\* MemtoolRegistry._generate_id: "mem_" + a digest of the content
MemId(content) == <<"mem_", content>>

Contents    == {ToString(i) : i \in 1..MaxContents}
MemIds      == {MemId(c) : c \in Contents}
MemTypes    == {"general", "test"}
NoType      == ""           \* memory_type=None
Tags        == {"tag1", "tag2"}
StoredTags  == {{}, {"tag1"}, {"tag1", "tag2"}}
StoredLinks == {{}, {MemId("1")}}

\* Memory(memory_id, content, memory_type, tags, links)
Memory(memory_id, content, memory_type, tags, links) ==
    [memory_id |-> memory_id, content |-> content, memory_type |-> memory_type,
     tags |-> tags, links |-> links, access_count |-> 0]

\* Memory.access
access(m) == [m EXCEPT !.access_count = @ + 1]

\* what the latest call was and what it returned: ret is the set of the ids
\* of the memories returned, ok the boolean a link() returned
Mem(op, a, b, tags, memory_type, ret, ok) ==
    [op |-> op, a |-> a, b |-> b, tags |-> tags, memory_type |-> memory_type,
     ret |-> ret, ok |-> ok]
NoMem == Mem("", None, None, {}, NoType, {}, FALSE)

InitMemtools ==
    /\ memories = EmptyMap
    /\ tagIndex = [t \in {} |-> {}]
    /\ lastMem = NoMem

MemFrame ==
    /\ ResetNotes
    /\ UNCHANGED <<polVars, operators, disk, inflight, history, outbound, capabilities, hookOn,
                   storageOn, keys, keysByHash, storage, tasks, revoked, now>>
    /\ UNCHANGED <<authVars, netVars, pipeVars, checkVars, lastVars>>

\* MemtoolRegistry._index_memory, the index by tags
_index_memory(index, memory) ==
    [t \in DOMAIN index \cup memory.tags |->
        (IF t \in DOMAIN index THEN index[t] ELSE {}) \cup
        (IF t \in memory.tags THEN {memory.memory_id} ELSE {})]

\* MemtoolRegistry.store
Store(content, memory_type, tags, links) ==
    /\ \E memory_id \in {MemId(content)} :
        IF memory_id \in DOMAIN memories
        THEN /\ memories[memory_id].access_count < MaxAccess
             /\ memories' = [memories EXCEPT ![memory_id] = access(@)]
             /\ tagIndex' = tagIndex
             /\ lastMem' = Mem("store", memory_id, None, tags, memory_type, {memory_id}, TRUE)
        ELSE /\ memories' = Put(memories, memory_id,
                                Memory(memory_id, content, memory_type, tags, links))
             /\ tagIndex' = _index_memory(tagIndex,
                                Memory(memory_id, content, memory_type, tags, links))
             /\ lastMem' = Mem("store", memory_id, None, tags, memory_type, {memory_id}, TRUE)
    /\ MemFrame

\* the ids recall() selects before the cut at limit (default 10, above MaxContents)
Matching(tags) ==
    UNION {tagIndex[t] : t \in tags \cap DOMAIN tagIndex}

Selected(tags, memory_type) ==
    {mid \in (IF tags # {} THEN Matching(tags) \cap DOMAIN memories ELSE DOMAIN memories) :
        memory_type # NoType => memories[mid].memory_type = memory_type}

\* MemtoolRegistry.recall(memory_id=...) / recall(tags=..., memory_type=...)
Recall(memory_id, tags, memory_type) ==
    /\ \E ret \in {IF memory_id # None
                   THEN {memory_id} \cap DOMAIN memories
                   ELSE Selected(tags, memory_type)} :
        /\ \A mid \in ret : memories[mid].access_count < MaxAccess
        /\ memories' = [mid \in DOMAIN memories |->
                            IF mid \in ret THEN access(memories[mid]) ELSE memories[mid]]
        /\ lastMem' = Mem("recall", memory_id, None, tags, memory_type, ret, TRUE)
    /\ tagIndex' = tagIndex
    /\ MemFrame

\* link() that records the link on the first memory only
LinkOneWay(memory_id_a, memory_id_b) ==
    /\ IF memory_id_a \notin DOMAIN memories \/ memory_id_b \notin DOMAIN memories
       THEN /\ memories' = memories
            /\ lastMem' = Mem("link", memory_id_a, memory_id_b, {}, NoType, {}, FALSE)
       ELSE /\ memories' = [memories EXCEPT ![memory_id_a].links = @ \cup {memory_id_b}]
            /\ lastMem' = Mem("link", memory_id_a, memory_id_b, {}, NoType, {}, TRUE)
    /\ tagIndex' = tagIndex
    /\ MemFrame

\* MemtoolRegistry.link
Link(memory_id_a, memory_id_b) ==
    /\ IF memory_id_a \notin DOMAIN memories \/ memory_id_b \notin DOMAIN memories
       THEN /\ memories' = memories
            /\ lastMem' = Mem("link", memory_id_a, memory_id_b, {}, NoType, {}, FALSE)
       ELSE /\ memories' = [mid \in DOMAIN memories |->
                    [memories[mid] EXCEPT !.links =
                        @ \cup (IF mid = memory_id_a THEN {memory_id_b} ELSE {})
                          \cup (IF mid = memory_id_b THEN {memory_id_a} ELSE {})]]
            /\ lastMem' = Mem("link", memory_id_a, memory_id_b, {}, NoType, {}, TRUE)
    /\ tagIndex' = tagIndex
    /\ MemFrame

\* MemtoolRegistry.forget(memory_id=...)
Forget(memory_id) ==
    /\ memories' = Drop(memories, memory_id)
    /\ tagIndex' = tagIndex
    /\ lastMem' = Mem("forget", memory_id, None, {}, NoType,
                      {memory_id} \cap DOMAIN memories, TRUE)
    /\ MemFrame

(***************************************************************************)
(* security/sessions.py : SessionManager with a storage adapter.  Every    *)
(* method is a coroutine; an action is the run of one coroutine between    *)
(* two suspensions (the awaits on the storage adapter).                    *)
(***************************************************************************)
MaxSessions == 1
MaxSessTasks == 2
MaxRequests == 2
DEFAULT_TTL == 3600

SessId(i) == <<"sess_", ToString(i)>>
SessIds   == {SessId(i) : i \in 1..MaxSessions}

\* Session, the fields the manager reads or writes; to_dict / from_dict copy them
Session(session_id, t) ==
    [session_id |-> session_id, expires_at |-> t + DEFAULT_TTL,
     last_activity |-> t, data |-> {}, request_count |-> 0]

\* Session.is_expired
session_expired(session, t) == t > session.expires_at

\* Session.touch
touch(session, t) ==
    [session EXCEPT !.last_activity = t, !.request_count = @ + 1]

\* int(session.expires_at - time.time())
remaining_ttl(session, t) == session.expires_at - t

SessTask(op, pc, id, snap) == [op |-> op, pc |-> pc, id |-> id, snap |-> snap]
SessIdle == SessTask("", "idle", None, None)
SessRet(op, id, ok) == [op |-> op, id |-> id, ok |-> ok]
NoSess == SessRet("", None, FALSE)

InitSessions ==
    /\ sessions = EmptyMap
    /\ kv = EmptyMap
    /\ sessTasks = [t \in 1..MaxSessTasks |-> SessIdle]
    /\ deletedSessions = {}
    /\ lastSess = NoSess

InitLast == InitSessions /\ InitLife

SessFrame ==
    /\ ResetNotes
    /\ UNCHANGED <<polVars, operators, disk, inflight, history, outbound, capabilities, hookOn,
                   storageOn, keys, keysByHash, storage, tasks, revoked, now>>
    /\ UNCHANGED <<authVars, netVars, pipeVars, checkVars, memVars, lifeVars>>

\* the ids secrets.token_urlsafe has already produced
UsedSessIds ==
    DOMAIN sessions \cup DOMAIN kv \cup deletedSessions
        \cup {sessTasks[t].id : t \in 1..MaxSessTasks}

\* a caller can name a session id once create_session has returned it
Known(id) == \A t \in 1..MaxSessTasks : ~(sessTasks[t].op = "create" /\ sessTasks[t].id = id)

\* SessionManager.create_session, up to its await on storage.set
CreateSession(t) ==
    /\ sessTasks[t].pc = "idle"
    /\ \E id \in SessIds \ UsedSessIds :
         LET session == Session(id, now) IN
         /\ sessions' = Put(sessions, id, session)
         /\ sessTasks' = [sessTasks EXCEPT ![t] = SessTask("create", "set", id, session)]
    /\ lastSess' = NoSess
    /\ UNCHANGED <<kv, deletedSessions>>
    /\ SessFrame

\* what a method does with the session get_session handed to it, up to its
\* await on storage.set (the session is the object the cache holds)
AfterGet(t, op, id, cache) ==
    LET session == cache[id] IN
    IF op = "get"
    THEN /\ sessions' = cache
         /\ sessTasks' = [sessTasks EXCEPT ![t] = SessIdle]
         /\ lastSess' = SessRet("get", id, TRUE)
    ELSE \E changed \in {IF op = "touch" THEN touch(session, now)
                         ELSE IF op = "extend"
                              THEN touch([session EXCEPT !.expires_at = now + DEFAULT_TTL], now)
                              ELSE [session EXCEPT !.data = @ \cup {"k"}]} :
         /\ sessions' = Put(cache, id, changed)
         /\ IF op = "extend" \/ remaining_ttl(changed, now) > 0
            THEN /\ sessTasks' = [sessTasks EXCEPT ![t] = SessTask(op, "set", id, changed)]
                 /\ lastSess' = NoSess
            ELSE /\ sessTasks' = [sessTasks EXCEPT ![t] = SessIdle]
                 /\ lastSess' = SessRet(op, id, TRUE)

SessOps == {"get", "touch", "extend", "set_data"}

\* get_session / touch_session / extend_session / set_session_data, from the
\* call to the first await: get_session answers from the cache or awaits
\* storage.get
SessionCall(t, op, id) ==
    /\ sessTasks[t].pc = "idle"
    /\ Known(id)
    /\ op \in {"touch", "extend"} /\ id \in DOMAIN sessions
            => sessions[id].request_count < MaxRequests
    /\ op \in {"touch", "extend"} /\ id \in DOMAIN kv
            => kv[id].request_count < MaxRequests
    /\ IF id \in DOMAIN sessions /\ ~session_expired(sessions[id], now)
       THEN AfterGet(t, op, id, sessions)
       ELSE /\ sessions' = Drop(sessions, id)
            /\ sessTasks' = [sessTasks EXCEPT ![t] =
                   SessTask(op, "get", id, IF id \in DOMAIN kv THEN kv[id] ELSE None)]
            /\ lastSess' = NoSess
    /\ UNCHANGED <<kv, deletedSessions>>
    /\ SessFrame

\* storage.get returns inside get_session
GetSessionResume(t) ==
    /\ sessTasks[t].pc = "get"
    /\ LET op == sessTasks[t].op
           id == sessTasks[t].id
           data == sessTasks[t].snap
       IN IF data # None /\ ~session_expired(data, now)
          THEN AfterGet(t, op, id, Put(sessions, id, data))
          ELSE /\ sessions' = sessions
               /\ sessTasks' = [sessTasks EXCEPT ![t] = SessIdle]
               /\ lastSess' = SessRet(op, id, FALSE)
    /\ UNCHANGED <<kv, deletedSessions>>
    /\ SessFrame

\* storage.set returns: the adapter holds the dictionary it was handed
SetSessionResume(t) ==
    /\ sessTasks[t].pc = "set"
    /\ kv' = Put(kv, sessTasks[t].id, sessTasks[t].snap)
    /\ sessTasks' = [sessTasks EXCEPT ![t] = SessIdle]
    /\ lastSess' = SessRet(sessTasks[t].op, sessTasks[t].id, TRUE)
    /\ UNCHANGED <<sessions, deletedSessions>>
    /\ SessFrame

\* SessionManager.delete_session, up to its await on storage.delete
DeleteSessionCall(t, id) ==
    /\ sessTasks[t].pc = "idle"
    /\ Known(id)
    /\ sessions' = Drop(sessions, id)
    /\ sessTasks' = [sessTasks EXCEPT ![t] = SessTask("delete", "delete", id, None)]
    /\ lastSess' = NoSess
    /\ UNCHANGED <<kv, deletedSessions>>
    /\ SessFrame

\* storage.delete returns and delete_session returns True
DeleteSessionResume(t) ==
    /\ sessTasks[t].pc = "delete"
    /\ kv' = Drop(kv, sessTasks[t].id)
    /\ deletedSessions' = deletedSessions \cup {sessTasks[t].id}
    /\ sessTasks' = [sessTasks EXCEPT ![t] = SessIdle]
    /\ lastSess' = SessRet("delete", sessTasks[t].id, TRUE)
    /\ UNCHANGED sessions
    /\ SessFrame

InitExt == InitAuth /\ InitNet /\ InitPipeline /\ InitChecks /\ InitMemtools /\ InitLast

(***************************************************************************)
(* Specifications.                                                         *)
(*   SpecKernel     policy routes, register and invoke                     *)
(*   SpecDiscovery  policy routes, discovery, the promotion hook and the   *)
(*                  invocation of promoted operators                       *)
(*   SpecKeys       the KeyManager without storage, the clock,             *)
(*                  delete_policy                                          *)
(*   SpecStoredKeys the KeyManager's coroutines over a storage adapter     *)
(*   SpecAuth       the AuthGateway's tokens over the KeyManager            *)
(*   SpecRate       the AuthGateway's rate limiting                         *)
(*   SpecNet        the network's slots, connections, forward bindings and  *)
(*                  signals; SpecNetFair adds the scheduling of the loop    *)
(*   SpecSlots      the states of the network's slots                       *)
(***************************************************************************)
\* the subsystems a specification leaves out stay as constructed
Rest == UNCHANGED extVars

Init ==
    InitPolicies /\ InitOperators /\ InitDiscovery /\ InitKeysUnused /\ InitExt /\ now = 0

NextKernel ==
    \/ \E body \in KernelBodies : CreateKernelPolicy(body) /\ Rest
    \/ \E pid \in KernelIds, body \in PatchBodies : UpdateKernelPolicy(pid, body) /\ Rest
    \/ \E pid \in KernelIds : DeleteKernelPolicy(pid) /\ Rest
    \/ \E b \in BOOLEAN : update_policy(PolMaster, b) /\ Rest
    \/ \E id \in OpIds, sig \in Signatures : Register(id, sig) /\ Rest
    \/ \E id \in OpIds, ctx \in Ctxs : InvokeCall(id, ctx) /\ Rest
    \/ \E c \in inflight, outcome \in Outcomes : InvokeReturn(c, outcome) /\ Rest

SpecKernel == Init /\ [][NextKernel]_vars

NextDiscovery ==
    \/ \E body \in DiscoveryBodies : CreateKernelPolicy(body) /\ Rest
    \/ \E b \in BOOLEAN : UpdateKernelPolicy(KpolA, [key |-> "is_active", value |-> b]) /\ Rest
    \/ DeleteKernelPolicy(KpolA) /\ Rest
    \/ BrainInitialize /\ Rest
    \/ \E found \in Probes : Discover(found) /\ Rest
    \/ \E i \in 1..MaxCaps, ctx \in Ctxs : InvokeCall(CapId(i), ctx) /\ Rest
    \/ \E c \in inflight, outcome \in Outcomes : InvokeReturn(c, outcome) /\ Rest

SpecDiscovery == Init /\ [][NextDiscovery]_vars

\* KeyManager() as get_key_manager builds it: no storage, so no method suspends
InitPlainKeys ==
    InitPolicies /\ InitOperators /\ InitDiscovery /\ InitKeysUnused /\ InitExt /\ now = 0

NextKeys ==
    \/ \E t \in 1..MaxTasks, prof \in Profiles, expires \in BOOLEAN :
            CreateKeyCall(t, prof, expires) /\ Rest
    \/ \E t \in 1..MaxTasks, raw \in IssuedRaws \cup BogusRaws : VerifyKeyCall(t, raw) /\ Rest
    \/ \E t \in 1..MaxTasks, op \in KeyOps, key_id \in KeyIds : KeyOpCall(t, op, key_id) /\ Rest
    \/ delete_policy(PolUser) /\ Rest
    \/ Tick /\ Rest

SpecKeys == InitPlainKeys /\ [][NextKeys]_vars

\* KeyManager(storage=adapter): every adapter call is a suspension point
InitStoredKeys ==
    InitPolicies /\ InitOperators /\ InitDiscovery /\ InitKeys /\ storageOn /\ InitExt
        /\ now = 0

NextStoredKeys ==
    \/ \E t \in 1..MaxTasks : CreateKeyCall(t, StoredProfile, FALSE) /\ Rest
    \/ \E t \in 1..MaxTasks : CreateSaveResume(t) /\ Rest
    \/ \E t \in 1..MaxTasks, raw \in IssuedRaws \cup BogusRaws : VerifyKeyCall(t, raw) /\ Rest
    \/ \E t \in 1..MaxTasks : VerifyKeyResume(t) /\ Rest
    \/ \E t \in 1..MaxTasks, op \in KeyOps, key_id \in KeyIds : KeyOpCall(t, op, key_id) /\ Rest
    \/ \E t \in 1..MaxTasks : GetKeyResume(t) /\ Rest
    \/ \E t \in 1..MaxTasks : SaveResume(t) /\ Rest
    \/ \E t \in 1..MaxTasks : RotateCreateSaveResume(t) /\ Rest
    \/ \E t \in 1..MaxTasks : RotateRevokeSaveResume(t) /\ Rest

SpecStoredKeys == InitStoredKeys /\ [][NextStoredKeys]_vars

\* AuthGateway over the KeyManager: keys, tokens, authenticate
AuthKeyOps == {"revoke", "suspend", "reactivate"}

NextAuth ==
    \/ \E t \in 1..MaxTasks : CreateKeyCall(t, StoredProfile, FALSE) /\ AuthIdle
    \/ \E t \in 1..MaxTasks, op \in AuthKeyOps, key_id \in KeyIds :
            KeyOpCall(t, op, key_id) /\ AuthIdle
    \/ \E raw \in IssuedRaws \cup BogusRaws : CreateToken(raw)
    \/ \E b \in Bearers : RefreshToken(b)
    \/ \E raw \in IssuedRaws \cup BogusRaws : Authenticate(raw, NoBearer)
    \/ \E b \in Bearers \cup {NoBearer} : Authenticate(None, b)
    \/ \E t \in Instants : Elapse(t) /\ AuthIdle

SpecAuth == InitPlainKeys /\ [][NextAuth]_vars

\* AuthGateway.check_rate_limit under policies with small limits
NextRate ==
    \/ \E t \in 1..MaxTasks : CreateKeyCall(t, StoredProfile, FALSE) /\ AuthIdle
    \/ \E rl \in RateInputs : UpdateRateLimits(PolUser, rl) /\ AuthIdle
    \/ \E raw \in IssuedRaws \cup BogusRaws : RateLimitedRequest(raw)
    \/ \E t \in Instants : Elapse(t) /\ AuthIdle

SpecRate == InitPlainKeys /\ [][NextRate]_vars

\* the network's slots, connections, forward bindings and signals
NextNet ==
    \/ Start
    \/ CreateSlot
    \/ \E slot_a \in SlotIds, slot_b \in SlotIds : ConnectSlots(slot_a, slot_b)
    \/ \E slot_id \in SlotIds, binding \in ForwardBindings : AddBinding(slot_id, binding)
    \/ \E signal \in Signals : SendSignal(signal)
    \/ LoopScan
    \/ LoopBind
    \/ LoopDone

SpecNet == Init /\ [][NextNet]_vars

\* _signal_loop runs as long as _running holds: asyncio resumes it after
\* every sleep, and none of its runs between two sleeps blocks
LoopStep == LoopScan \/ LoopBind \/ LoopDone

SpecNetFair == Init /\ [][NextNet]_vars /\ WF_vars(LoopStep)

\* the states of slots: bindings that invoke operators or raise, callers of
\* invoke_operator, the health loop and the clock
NextSlots ==
    \/ Start
    \/ CreateSlot
    \/ \E slot_id \in SlotIds, binding \in ActingBindings : AddBinding(slot_id, binding)
    \/ SendSignal(Signal(<<"sig">>, "data", SlotId(1), SlotId(1), 1))
    \/ Register(OpId(1), <<EpTLS, "POST">>) /\ NetIdle
    \/ LoopScan
    \/ LoopBind
    \/ \E p \in calls, c \in inflight, outcome \in Outcomes : LoopResume(p, c, outcome)
    \/ LoopDone
    \/ \E slot_id \in SlotIds : InvokeOperatorCall(slot_id, OpId(1))
    \/ \E p \in calls, c \in inflight, outcome \in Outcomes :
            InvokeOperatorReturn(p, c, outcome)
    \/ HealthCheck
    \/ \E t \in NetInstants : Elapse(t) /\ NetIdle

SpecSlots == Init /\ [][NextSlots]_vars

\* the bindings of slots while the network is started and stopped
LifeBindings ==
    {ReactiveBinding(AnySignal, "invoke_operator", Config(None, OpId(1), FALSE)),
     ReactiveBinding(AnySignal, "invoke_operator", Config(None, Unhashable, FALSE)),
     ReactiveBinding(AnySignal, "transform", Config(None, None, TRUE))}

\* start() and stop() around the loops, with signals at two slots
NextLife ==
    \/ Start
    \/ StopCall
    \/ StopResume
    \/ CreateSlot
    \/ \E slot_id \in SlotIds, binding \in LifeBindings : AddBinding(slot_id, binding)
    \/ \E slot_id \in SlotIds :
            SendSignal(Signal(<<"sig">>, "data", SlotId(1), slot_id, 1))
    \/ Register(OpId(1), <<EpTLS, "POST">>) /\ NetIdle
    \/ LoopScan
    \/ LoopBind
    \/ \E p \in calls, c \in inflight, outcome \in Outcomes : LoopResume(p, c, outcome)
    \/ LoopDone
    \/ HealthCheck
    \/ Elapse(ErrorIdle + 1) /\ NetIdle

SpecLife == Init /\ [][NextLife]_vars

\* a pipeline over the registry: operators are registered, the pipeline is
\* built, then execute() runs alone
PipeSignatures == {<<EpTLS, "POST">>, <<EpStdio, "MCP">>}

NextPipeline ==
    \/ \E id \in PipeOps, sig \in PipeSignatures :
            pipeline.at = "build" /\ Register(id, sig) /\ PipeIdle
    \/ \E id \in PipeOps, with_transform \in BOOLEAN : PipelineAdd(id, with_transform)
    \/ PipelineExecute(<<"in">>)
    \/ PipelineInvoke
    \/ \E c \in inflight, outcome \in Outcomes, body \in Bodies :
            PipelineResume(c, outcome, body)

SpecPipeline == Init /\ [][NextPipeline]_vars

\* the PolicyEngine's checks on the default and on created policies
NextPolicy ==
    \/ \E pid \in CustomIds, permissions \in PermissionSets, kwargs \in KwargsSet :
            create_policy(pid, permissions, kwargs)
    \/ \E pid \in CustomIds, b \in BOOLEAN : update_policy(pid, b) /\ CheckIdle
    \/ \E pid \in CheckedIds : delete_policy(pid) /\ CheckIdle
    \/ \E pid \in CheckedIds, rt \in {"operator", "slot"}, rid \in CheckedOps,
          required \in Levels, ip \in CheckedIps :
            CheckAccess(pid, rt, rid, required, ip)
    \/ \E pid \in CheckedIds, operator_id \in CheckedOps, ip \in CheckedIps :
            CheckOperatorAccess(pid, operator_id, ip)
    \/ \E pid \in CheckedIds, endpoint \in CheckedEndpoints,
          method \in {"GET", "POST", "DELETE"}, ip \in CheckedIps :
            CheckEndpointAccess(pid, endpoint, method, ip)

SpecPolicy == Init /\ [][NextPolicy]_vars

\* the MemtoolRegistry
NextMemtools ==
    \/ \E content \in Contents, memory_type \in MemTypes, tags \in StoredTags,
          links \in StoredLinks : Store(content, memory_type, tags, links)
    \/ \E memory_id \in MemIds : Recall(memory_id, {}, NoType)
    \/ \E tags \in SUBSET Tags, memory_type \in MemTypes \cup {NoType} :
            Recall(None, tags, memory_type)
    \/ \E a \in MemIds, b \in MemIds : Link(a, b)
    \/ \E memory_id \in MemIds : Forget(memory_id)

SpecMemtools == Init /\ [][NextMemtools]_vars

NextSessions ==
    \/ \E t \in 1..MaxSessTasks : CreateSession(t)
    \/ \E t \in 1..MaxSessTasks, op \in SessOps, id \in SessIds : SessionCall(t, op, id)
    \/ \E t \in 1..MaxSessTasks : GetSessionResume(t)
    \/ \E t \in 1..MaxSessTasks : SetSessionResume(t)
    \/ \E t \in 1..MaxSessTasks, id \in SessIds : DeleteSessionCall(t, id)
    \/ \E t \in 1..MaxSessTasks : DeleteSessionResume(t)

SpecSessions == Init /\ [][NextSessions]_vars


(***************************************************************************)
(* Properties.                                                             *)
(***************************************************************************)
\* the reference of the transport invariant: the scheme is http:// and the
\* host, the authority component of the URL, is none of the three local names
LocalHosts == { <<"localhost">>, <<"127.0.0.1">>, <<"0.0.0.0">> }
Authority(endpoint) == SubSeq(endpoint, 2, Len(endpoint) - 1)
RefInsecure(endpoint) == endpoint[1] = "http://" /\ Authority(endpoint) \notin LocalHosts

\* the latest step was a call of invoke() on a registered operator
Called == lastInv.step = "call" /\ lastInv.operator_id \in DOMAIN operators
CalledOp == operators[lastInv.operator_id]
\* ... to which break-glass did not apply
NoBreakGlass == ~_can_bypass(policies, lastInv.ctx, now)

\* a decision that was returned and allows
Allows(d) == ~d.raised /\ d.allowed
TransportReason == "Insecure transport: HTTPS required"

\* C1 (as stated): revoked is terminal; once revoke_key(K) has returned True,
\* K.status is REVOKED in every later state, whatever suspend_key,
\* reactivate_key, revoke_key and rotate_key calls follow.
C1_RevokedIsTerminal == \A k \in revoked : keys[k].status = "revoked"

\* C2 (as stated): once revoke_key(K) has succeeded, verify_key called with
\* K's raw secret returns no APIKey in every later state, with or without a
\* storage adapter.
C2_RevokedNeverVerifies == \A k \in revoked : verify_key(RawOf(keys[k])) = None

\* C3 (as stated): invoke without break-glass of a registered operator whose
\* endpoint_url has scheme http:// and a non-local host returns a failed
\* invocation with the 'Insecure transport' error, starts no outbound call and
\* updates no statistics.
C3_InsecureTransportRefused ==
    [][(Called' /\ NoBreakGlass' /\ RefInsecure(CalledOp'.endpoint_url)) =>
            /\ lastInv'.returned /\ ~lastInv'.success
            /\ lastInv'.error = TransportReason
            /\ outbound' = outbound
            /\ operators' = operators /\ ~lastInv'.stats_updated]_vars

\* the latest step called invoke(), without break-glass, on an operator whose
\* endpoint starts with a prefix the active kernel policy pid denies
DeniedCall(pid) ==
    /\ Called /\ NoBreakGlass
    /\ IsKernelActive(policies, pid)
    /\ \E P \in policies[pid].denied_endpoints : StartsWith(CalledOp.endpoint_url, P)

\* kernel policy a is evaluated before kernel policy b
EarlierKernelPolicy(a, b) ==
    LET kps == list_kernel_policies(policies, policyOrder) IN
    \E i, j \in 1..Len(kps) : i < j /\ kps[i] = a /\ kps[j] = b

\* C4 (as stated): while an active kernel policy lists prefix P in
\* denied_endpoints, every invoke without break-glass of an operator whose
\* endpoint_url starts with P returns a failed invocation naming that policy
\* and starts no outbound call.
C4_DenyingPolicyNamed ==
    [][\A pid \in DOMAIN policies' : DeniedCall(pid)' =>
            /\ lastInv'.returned /\ ~lastInv'.success
            /\ lastInv'.policy_id = pid
            /\ outbound' = outbound]_vars

\* C4 (amended): such an invoke returns a failed invocation and starts no
\* outbound call; the invocation names that policy unless the transport
\* invariant refused the call first, a kernel policy evaluated earlier refused
\* it first, or enforcement raised.
C4_DeniedPrefixNotInvoked ==
    [][\A pid \in DOMAIN policies' : DeniedCall(pid)' =>
            /\ lastInv'.returned /\ ~lastInv'.success
            /\ outbound' = outbound
            /\ \/ lastInv'.policy_id = pid
               \/ lastInv'.error = TransportReason
               \/ lastInv'.error = "Kernel enforcement error"
               \/ EarlierKernelPolicy(lastInv.policy_id, pid)']_vars

\* C4 witness: a call refused by the kernel policy that denies its prefix
C4_Witness ==
    \E pid \in DOMAIN policies :
        DeniedCall(pid) /\ lastInv.returned /\ lastInv.policy_id = pid
            /\ lastInv.error = "Denied by"

\* the actor of ctx is entitled to break-glass: the flag is set and the
\* actor's own policy is active and grants MASTER on SYSTEM/"kernel"
BypassEntitled(ctx) ==
    /\ ctx.kernel_bypass
    /\ ctx.actor_policy_id # NoPolicy
    /\ ctx.actor_policy_id \in DOMAIN policies
    /\ policies[ctx.actor_policy_id].is_active
    /\ get_permission_level(policies[ctx.actor_policy_id], "system", <<"kernel">>) >= LvMASTER

\* the same request without the break-glass flag
NoFlag(ctx) == [ctx EXCEPT !.kernel_bypass = FALSE]

MemoryTypes == {"fact"}

\* the guardrails refuse the request: the transport invariant does, or some
\* active kernel policy refuses it or cannot be evaluated
KernelPolicies == {pid \in DOMAIN policies : IsKernelActive(policies, pid)}

WouldDenyInvoke(operator_id, endpoint, method, ip) ==
    \/ InsecureTransport(endpoint)
    \/ \E pid \in KernelPolicies :
          \/ can_access_operator_raises(policies[pid])
          \/ can_access_endpoint_raises(policies[pid])
          \/ ~check_operator_access(policies, pid, operator_id, ip, now).allowed
          \/ ~check_endpoint_access(policies, pid, endpoint, method, ip, now).allowed

WouldDenyRegister(capability_type, endpoint, method, ip) ==
    \/ InsecureTransport(endpoint)
    \/ \E pid \in KernelPolicies :
          \/ can_access_endpoint_raises(policies[pid])
          \/ ~check_access(policies, pid, "system", <<"discovery:", capability_type>>,
                           LvEXECUTE, ip, now).allowed
          \/ ~check_endpoint_access(policies, pid, endpoint, method, ip, now).allowed

WouldDenyStore(memory_type, ip) ==
    \E pid \in KernelPolicies :
        ~check_access(policies, pid, "system", <<"memory:", memory_type>>,
                      LvWRITE, ip, now).allowed

\* C5: break-glass is the only bypass; when one of the three enforcers allows
\* a request that the transport invariant or an active kernel policy would
\* deny, the request carries kernel_bypass and the actor's own policy is
\* active and grants MASTER on SYSTEM/"kernel".
C5_BreakGlassOnlyBypass ==
    \A ctx \in Ctxs :
        /\ \A id \in DOMAIN operators :
              (/\ WouldDenyInvoke(id, operators[id].endpoint_url, operators[id].method,
                                  ctx.ip)
               /\ Allows(InvokeDecision(operators[id], ctx)))
              => BypassEntitled(ctx)
        /\ \A k \in CapKinds :
              (/\ WouldDenyRegister(k[1], k[2], k[3], ctx.ip)
               /\ Allows(enforce_discovery_register(policies, policyOrder, k[1], k[2],
                                                    k[3], ctx, now)))
              => BypassEntitled(ctx)
        /\ \A m \in MemoryTypes :
              (/\ WouldDenyStore(m, ctx.ip)
               /\ Allows(enforce_memory_store(policies, policyOrder, m, ctx, now)))
              => BypassEntitled(ctx)

\* C5 witness: invoke() went on to its outbound call under break-glass although
\* the guardrails refuse the call
C5_Witness ==
    /\ Called /\ ~lastInv.returned
    /\ lastInv.ctx.kernel_bypass
    /\ WouldDenyInvoke(CalledOp.operator_id, CalledOp.endpoint_url, CalledOp.method,
                       lastInv.ctx.ip)

\* the latest step called invoke() and kernel enforcement raised
RaisedCall == Called /\ InvokeDecision(CalledOp, lastInv.ctx).raised

\* C6: fail-safe deny; when kernel enforcement raises, invoke() returns a
\* failed invocation and starts no outbound call, and discover_from_source
\* neither stores the capability nor calls a hook for it.
C6_FailSafeDeny ==
    [][/\ RaisedCall' =>
            (lastInv'.returned /\ ~lastInv'.success /\ outbound' = outbound)
       /\ \A cap \in lastDisc'.stored \cup lastDisc'.hooked :
            ~RegisterDecision(cap)'.raised]_vars

\* C6 witness: an invoke() refused because enforcement raised
C6_Witness == RaisedCall /\ lastInv.returned /\ lastInv.error = "Kernel enforcement error"

\* C7: a capability that enforce_discovery_register denies is not stored and
\* no hook runs for it; every stored capability and every hook-promoted
\* operator passed kernel enforcement when it was registered.
C7_DeniedNeverRegistered ==
    /\ \A cap \in lastDisc.stored \cup lastDisc.hooked : RegisterDecision(cap).allowed
    /\ \A cap \in lastDisc.rejected : cap \notin lastDisc.stored \cup lastDisc.hooked
    /\ \A id \in DOMAIN capabilities : capabilities[id].kernel_ok
    /\ \A id \in DOMAIN operators :
          operators[id].origin = "hook" => operators[id].kernel_ok

\* C7 witness: one probe whose first capability the kernel denied and whose
\* next capability was stored and handed to the hook
C7_Witness ==
    /\ hookOn
    /\ lastDisc.stored # {} /\ lastDisc.hooked # {}
    /\ \E cap \in lastDisc.rejected :
          ~RegisterDecision(cap).raised /\ ~RegisterDecision(cap).allowed

\* C8 (as stated): without break-glass, enforce_operator_invoke and
\* enforce_discovery_register refuse an endpoint for its transport exactly
\* when its scheme is http:// and its host is none of localhost, 127.0.0.1,
\* 0.0.0.0.
C8_TransportMatchesReference ==
    /\ (Called /\ NoBreakGlass) =>
          /\ RefInsecure(CalledOp.endpoint_url) => (lastInv.returned /\ ~lastInv.success)
          /\ lastInv.error = TransportReason => RefInsecure(CalledOp.endpoint_url)
    /\ \A cap \in lastDisc.stored : ~RefInsecure(cap.endpoint)
    /\ \A cap \in lastDisc.rejected :
          RegisterDecision(cap).reason = TransportReason => RefInsecure(cap.endpoint)

\* C9 (as stated): rotate_key(K) on an existing key returns a successor with
\* K's owner_id, policy_id and scope; when it returns K is REVOKED, the
\* successor is ACTIVE, K's raw secret does not verify and the successor's does.
C9_RotationPostconditions ==
    (lastKey.op = "rotate" /\ lastKey.key \in DOMAIN keys) =>
        /\ lastKey.result = "ok"
        /\ lastKey.ret \in DOMAIN keys
        /\ keys[lastKey.ret].owner_id = keys[lastKey.key].owner_id
        /\ keys[lastKey.ret].policy_id = keys[lastKey.key].policy_id
        /\ keys[lastKey.ret].scope = keys[lastKey.key].scope
        /\ keys[lastKey.key].status = "revoked"
        /\ keys[lastKey.ret].status = "active"
        /\ verify_key(RawOf(keys[lastKey.key])) = None
        /\ verify_key(lastKey.raw) = lastKey.ret

\* C10 (as stated): rotate_key is atomic; at no await inside rotate_key are the
\* predecessor's and the successor's raw secrets both verifiable.
C10_RotationAtomic ==
    \A t \in 1..MaxTasks :
        (tasks[t].op = "rotate" /\ tasks[t].succ # None) =>
            ~(/\ verify_key(RawOf(keys[tasks[t].key])) # None
              /\ verify_key(RawOf(keys[tasks[t].succ])) # None)

\* the key has not expired
Unexpired(k) == ~(k.expires_at # 0 /\ now > k.expires_at)

\* C11 (as stated): for an unexpired key K created by create_key,
\* verify_key(raw_K) returns K exactly in the states where K.status is ACTIVE.
C11_VerifiesIffActive ==
    \A k \in DOMAIN keys :
        Unexpired(keys[k]) =>
            (verify_key(RawOf(keys[k])) = k <=> keys[k].status = "active")

\* the latest step was authenticate() with only a bearer token
BearerCall ==
    lastAuth.op = "authenticate" /\ lastAuth.api_key = None /\ lastAuth.bearer # NoBearer

\* C12 (as stated): authenticate with only a bearer token returns an
\* authenticated context only if the token is unexpired and the key named by
\* token.key_id still exists and is valid.
C12_BearerNeedsValidKey ==
    (BearerCall /\ lastAuth.ctx.authenticated) =>
        LET token == from_dict(lastAuth.bearer.claims) IN
        /\ ~is_expired(token, now)
        /\ token.key_id \in DOMAIN keys
        /\ is_valid(keys[token.key_id], now)

\* the latest step was check_rate_limit on a key-authenticated context whose
\* policy exists
RateCall ==
    /\ lastAuth.op = "check_rate_limit"
    /\ lastAuth.ctx.authenticated /\ lastAuth.ctx.key # None
    /\ lastAuth.ctx.policy_id \in DOMAIN policies
RateKey == lastAuth.ctx.key
RateLimits == policies[lastAuth.ctx.policy_id].rate_limits

\* the calls for key k that returned allowed at or after instant t0, among log
GrantsSince(log, k, t0) ==
    Cardinality({i \in 1..Len(log) : log[i].key = k /\ log[i].at >= t0})

\* C13 (as stated): while the hour and day limits are not reached, within one
\* window the first L calls of check_rate_limit return allowed, every further
\* call returns (false, reason), and a denied call leaves the minute, hour and
\* day counters unchanged.
C13_DeniedLeavesCounters ==
    [][RateCall' =>
        LET k == RateKey'
            w == rateLimits'[k]
        IN  (/\ GrantsSince(grants, k, w.hour.start) < RateLimits'.requests_per_hour
             /\ GrantsSince(grants, k, w.day.start) < RateLimits'.requests_per_day)
            => /\ lastAuth'.allowed <=>
                    GrantsSince(grants, k, w.minute.start) < RateLimits'.requests_per_minute
               /\ ~lastAuth'.allowed => rateLimits' = rateLimits]_vars

\* C13 (amended): ... and a denied call increments no counter and leaves the
\* minute window unchanged; an hour or day window that has elapsed is reset by
\* the denied call.
C13_DeniedNeverIncrements ==
    [][RateCall' =>
        LET k == RateKey'
            w == rateLimits'[k]
        IN  (/\ GrantsSince(grants, k, w.hour.start) < RateLimits'.requests_per_hour
             /\ GrantsSince(grants, k, w.day.start) < RateLimits'.requests_per_day)
            => /\ lastAuth'.allowed <=>
                    GrantsSince(grants, k, w.minute.start) < RateLimits'.requests_per_minute
               /\ ~lastAuth'.allowed =>
                    /\ k \in DOMAIN rateLimits
                    /\ grants' = grants
                    /\ w.minute = rateLimits[k].minute
                    /\ w.hour \in {rateLimits[k].hour, Window(0, now')}
                    /\ w.day \in {rateLimits[k].day, Window(0, now')}
                    /\ w.hour # rateLimits[k].hour =>
                            now' - rateLimits[k].hour.start > HourWindow
                    /\ w.day # rateLimits[k].day =>
                            now' - rateLimits[k].day.start > DayWindow]_vars

\* C13 witness: a call refused by the minute limit while the hour and day
\* limits are not reached
C13_Witness ==
    /\ RateCall /\ ~lastAuth.allowed
    /\ lastAuth.reason = "Rate limit exceeded (per minute)"
    /\ rateLimits[RateKey].hour.count < RateLimits.requests_per_hour
    /\ rateLimits[RateKey].day.count < RateLimits.requests_per_day

\* C14 (as stated): the per-minute limit is a sliding window; in every
\* 60-second interval, for every key, at most requests_per_minute calls of
\* check_rate_limit return allowed.
C14_SlidingMinuteWindow ==
    \A k \in DOMAIN rateLimits : \A t0 \in Instants :
        Cardinality({i \in 1..Len(grants) :
                        /\ grants[i].key = k
                        /\ t0 <= grants[i].at /\ grants[i].at < t0 + MinuteWindow})
            <= policies[keys[k].policy_id].rate_limits.requests_per_minute

\* the signals in the queue of a slot
QueuedAt(id) == {slots[id].signal_queue[k] : k \in 1..Len(slots[id].signal_queue)}

\* C15: no signal with ttl <= 0 is appended to a slot's signal_queue or
\* processed by a slot, whether it comes from send_signal with a target, from
\* a broadcast copy or from a forward binding.
C15_ExpiredSignalsDropped ==
    /\ \A id \in DOMAIN slots : \A signal \in QueuedAt(id) : signal.ttl > 0
    /\ \A signal \in lastNet.appended : signal.ttl > 0
    /\ lastNet.op = "dequeue" => lastNet.taken.ttl > 0

\* every signal queue is empty
QueuesEmpty == \A id \in DOMAIN slots : slots[id].signal_queue = <<>>

\* a signal was sent into the network from outside
SignalSent == lastNet.op = "send_signal"

\* C16: propagation terminates: in a started network, once no further signal
\* is sent from outside, only finitely many derived signals are enqueued and
\* all signal queues eventually become, and stay, empty.
C16_PropagationTerminates ==
    (<>_running) => ([]<>SignalSent \/ <>[]QueuesEmpty)

\* C17: signals enqueued at the same slot are dequeued and processed in the
\* order in which they were enqueued: the signal the scheduler takes from a
\* queue, and processes, was appended before every other signal in that queue.
C17_QueueIsFifo ==
    [][lastNet'.op = "dequeue" =>
          /\ loop'.signal = lastNet'.taken
          /\ lastNet'.taken \in QueuedAt(lastNet'.slot)
          /\ \A signal \in QueuedAt(lastNet'.slot) \ {lastNet'.taken} :
                  signal.seq > lastNet'.taken.seq]_vars

\* a signal was taken from a queue in which a later signal waits
C17_Witness ==
    /\ lastNet.op = "dequeue"
    /\ slots[lastNet.slot].signal_queue # <<>>
    /\ loop.signal = lastNet.taken

\* b is in connections(a) iff a is in connections(b)
Symmetric ==
    \A a \in DOMAIN slots : \A b \in slots[a].connections :
        b \in DOMAIN slots /\ a \in slots[b].connections

\* the connection sets of the slots
Connections(sl) == [id \in DOMAIN sl |-> sl[id].connections]

\* C18: slot connections are symmetric in every reachable state, and a
\* connect_slots call that names an unknown slot changes no connection set.
C18_ConnectionsSymmetric ==
    /\ []Symmetric
    /\ [][\A slot_a \in SlotIds, slot_b \in SlotIds :
            (ConnectSlots(slot_a, slot_b)
                /\ ~(slot_a \in DOMAIN slots /\ slot_b \in DOMAIN slots))
            => Connections(slots') = Connections(slots)]_vars

\* connect_slots has just connected two different slots
C18_Witness ==
    /\ lastNet.op = "connect_slots"
    /\ \E a \in DOMAIN slots : \E b \in slots[a].connections :
            a # b /\ lastNet.slot \in {a, b}

\* C19: every change of a slot's state made by the scheduler, by
\* invoke_operator and by the health loop is a transition of the state table
\* (IDLE/LISTENING -> PROCESSING on dequeue, PROCESSING -> LISTENING when the
\* bindings are done, PROCESSING -> EXECUTING on invoke_operator, EXECUTING ->
\* LISTENING when the invocation is done, any -> ERROR on exception, ERROR ->
\* LISTENING and LISTENING -> IDLE by the health loop); no other state change
\* occurs.
C19_StateTableFollowed ==
    LET InTable(c) ==
            \/ c.event = "dequeue" /\ c.from \in {"idle", "listening"}
                                   /\ c.to = "processing"
            \/ c.event = "done" /\ c.from = "processing" /\ c.to = "listening"
            \/ c.event = "invoke_operator" /\ c.from = "processing" /\ c.to = "executing"
            \/ c.event = "invoked" /\ c.from = "executing" /\ c.to = "listening"
            \/ c.event = "exception" /\ c.to = "error"
            \/ c.event = "recovered" /\ c.from = "error" /\ c.to = "listening"
            \/ c.event = "rested" /\ c.from = "listening" /\ c.to = "idle"
    IN  \A c \in lastNet.changes : c.from # c.to => InTable(c)

\* C20: every invoke of a registered operator that passes kernel enforcement
\* increments that operator's call_count by exactly one, whatever the outcome
\* of the outbound call: nothing before the outbound call changes the
\* statistics and its end adds one; an invoke that is rejected (operator not
\* found, kernel deny) leaves call_count unchanged.
C20_CallCountPerInvoke ==
    [][/\ lastInv'.step = "call" => operators' = operators
       /\ lastInv'.step = "return" =>
              /\ lastInv'.operator_id \in DOMAIN operators
              /\ operators'[lastInv'.operator_id].call_count
                    = operators[lastInv'.operator_id].call_count + 1]_vars

\* C21: operator statistics are stable: for every operator_id, call_count
\* never decreases across any sequence of register, discovery promotion and
\* invoke operations.
C21_CallCountMonotone ==
    [][\A id \in DOMAIN operators :
          /\ id \in DOMAIN operators'
          /\ operators'[id].call_count >= operators[id].call_count]_vars

\* execute() has returned
Executed == pipeline.result.returned

\* the operators of the steps after the first n
LaterOps(n) ==
    {pipeline.steps[k] : k \in n + 1..Len(pipeline.steps)}
        \ {pipeline.steps[k] : k \in 1..n}

\* what execute() returns, but for the inputs of the steps: the steps were
\* invoked in order up to the first failure; after a failure at step i the
\* result is success=false, failed_at_step=i with i+1 results, no later
\* operator was invoked and the later operators' stats are unchanged; without
\* a failure the result is success=true with the last outputs as final_output
ReturnsAsStated ==
    LET r == pipeline.result
        n == Len(r.results)
    IN  /\ n <= Len(pipeline.steps)
        /\ \A k \in 1..n : r.results[k].operator_id = pipeline.steps[k]
        /\ \A k \in 1..n - 1 : r.results[k].success
        /\ outbound <= n
        /\ r.success = (\A k \in 1..n : r.results[k].success)
        /\ ~r.success =>
              /\ n >= 1 /\ r.failed_at_step = n - 1
              /\ \A id \in LaterOps(n) \cap DOMAIN operators :
                    operators[id].call_count = pipeline.before[id]
        /\ r.success =>
              /\ n = Len(pipeline.steps)
              /\ n >= 1 => r.final_output = r.results[n].outputs

\* C22 as stated: execute invokes its steps in order, feeding each step's
\* outputs as the next step's inputs, and stops at the first failed
\* invocation (success=false, failed_at_step=i, exactly i+1 results, no later
\* operator invoked, later operators' stats unchanged); if no step fails it
\* returns success=true with the last step's outputs as final_output.
C22_OutputsFedUnchanged ==
    Executed =>
        /\ ReturnsAsStated
        /\ \A k \in 1..Len(pipeline.result.results) - 1 :
              pipeline.result.results[k + 1].inputs = pipeline.result.results[k].outputs

\* C22, amended: as stated, except that a step added with a transform is
\* given the transform of the previous step's outputs as its inputs.
C22_PipelineStopsAtFailure ==
    Executed =>
        /\ ReturnsAsStated
        /\ \A k \in 1..Len(pipeline.result.results) - 1 :
              pipeline.result.results[k + 1].inputs =
                  IF k \in pipeline.transforms
                  THEN Transformed(pipeline.result.results[k].outputs)
                  ELSE pipeline.result.results[k].outputs

\* a pipeline of two steps failed at its second step
C22_Witness ==
    /\ Executed /\ ~pipeline.result.success
    /\ pipeline.result.failed_at_step = 1
    /\ Len(pipeline.result.results) = 2

(***************************************************************************)
(* C23: deny lists take precedence over allow lists.  Whenever             *)
(* check_operator_access is asked about an operator id in the policy's     *)
(* denied_operators, or check_endpoint_access about an endpoint with a     *)
(* prefix in denied_endpoints, the answer is a refusal, whatever the allow *)
(* list and the permission level are; and with an empty allowed_* list and *)
(* no deny match the answer is the one check_access gives.                 *)
(***************************************************************************)
C23_DenyPrecedesAllow ==
    LET c == lastCheck
        p == policies[c.policy_id]
        plain == check_access(policies, c.policy_id, c.resource_type, c.resource_id,
                              c.required, c.ip, now)
    IN  /\ (c.op = "check_operator_access" /\ c.policy_id \in DOMAIN policies) =>
              /\ c.resource_id \in p.denied_operators => ~c.result.allowed
              /\ (c.resource_id \notin p.denied_operators /\ p.allowed_operators = {})
                    => c.result = plain
        /\ (c.op = "check_endpoint_access" /\ c.policy_id \in DOMAIN policies) =>
              /\ (\E e \in p.denied_endpoints : StartsWith(c.resource_id, e))
                    => ~c.result.allowed
              /\ ((\A e \in p.denied_endpoints : ~StartsWith(c.resource_id, e))
                    /\ p.allowed_endpoints = {}) => c.result = plain

\* an operator both allowed and denied, at a sufficient level, was refused
C23_Witness ==
    /\ lastCheck.op = "check_operator_access"
    /\ lastCheck.policy_id \in DOMAIN policies
    /\ lastCheck.resource_id \in policies[lastCheck.policy_id].denied_operators
    /\ lastCheck.resource_id \in policies[lastCheck.policy_id].allowed_operators
    /\ policies[lastCheck.policy_id].is_active
    /\ get_permission_level(policies[lastCheck.policy_id], "operator",
                            lastCheck.resource_id) >= LvEXECUTE
    /\ ~lastCheck.result.allowed

(***************************************************************************)
(* C24: a permission with resource_id "*" grants its level on every        *)
(* resource id of its type.  Whenever check_access is asked, on an active  *)
(* policy without restrictions, for a level that one of the policy's       *)
(* permissions of the requested type with resource_id "*" reaches, the     *)
(* answer is a grant.                                                      *)
(***************************************************************************)
C24_WildcardGrantsEveryId ==
    LET c == lastCheck
        p == policies[c.policy_id]
    IN  (/\ c.op = "check_access"
         /\ c.policy_id \in DOMAIN policies
         /\ p.is_active
         /\ p.restrictions = DefaultRestriction
         /\ \E perm \in p.permissions :
                /\ perm.resource_type = c.resource_type
                /\ perm.resource_id = Wildcard
                /\ perm.level >= c.required)
        => c.result.allowed

C26_WhitelistEnforced ==
    LET c == lastCheck
        p == policies[c.policy_id]
    IN  (/\ c.op \in {"check_access", "check_operator_access", "check_endpoint_access"}
         /\ c.policy_id \in DOMAIN policies
         /\ p.restrictions.ip_whitelist # {}
         /\ c.result.allowed)
        => c.ip \in p.restrictions.ip_whitelist

(***************************************************************************)
(* C27: the default policies pol_master, pol_admin, pol_user and           *)
(* pol_readonly are in the global policy engine in every reachable state,  *)
(* whatever create_policy, update_policy and delete_policy calls were      *)
(* made.                                                                   *)
(***************************************************************************)
C27_DefaultsAlwaysPresent ==
    {PolMaster, PolAdmin, PolUser, PolReadonly} \subseteq DOMAIN policies

(***************************************************************************)
(* C28: recall(tags=T) has intersection semantics.  Every memory a recall  *)
(* by tags returns carries every tag of the request, and has the requested *)
(* memory_type when one is given.                                          *)
(***************************************************************************)
C28_RecallIntersects ==
    (lastMem.op = "recall" /\ lastMem.a = None /\ lastMem.tags # {}) =>
        \A mid \in lastMem.ret :
            /\ lastMem.tags \subseteq memories[mid].tags
            /\ lastMem.memory_type # NoType =>
                    memories[mid].memory_type = lastMem.memory_type

(***************************************************************************)
(* C29: link(a, b) is symmetric.  After a link call that returned True, b  *)
(* is in the links of a and a in the links of b; a link call that returned *)
(* False, because one of the two memories does not exist, left every link  *)
(* set as it was.                                                          *)
(***************************************************************************)
C29_LinkSymmetric ==
    [][lastMem'.op = "link" =>
         IF lastMem'.ok
         THEN /\ {lastMem'.a, lastMem'.b} \subseteq DOMAIN memories'
              /\ lastMem'.b \in memories'[lastMem'.a].links
              /\ lastMem'.a \in memories'[lastMem'.b].links
         ELSE /\ lastMem'.a \notin DOMAIN memories \/ lastMem'.b \notin DOMAIN memories
              /\ DOMAIN memories' = DOMAIN memories
              /\ \A mid \in DOMAIN memories : memories'[mid].links = memories[mid].links]_vars

\* two distinct memories were linked by a link call that returned True
C29_Witness ==
    /\ lastMem.op = "link"
    /\ lastMem.ok
    /\ lastMem.a # lastMem.b
    /\ lastMem.b \in memories[lastMem.a].links
    /\ lastMem.a \in memories[lastMem.b].links

(***************************************************************************)
(* C30: the invocation history is a ring of a fixed size N: however many   *)
(* invocations were made, it holds at most N records, the oldest being     *)
(* evicted.  A pipeline makes up to MaxPipeCalls invocations, so for every *)
(* ring size N below MaxPipeCalls the history stays below MaxPipeCalls.    *)
(***************************************************************************)
C30_HistoryIsBoundedRing == history < MaxPipeCalls

(***************************************************************************)
(* C40: the memory indices agree with the memory map in every reachable    *)
(* state.  Stated for the index by tags: an id is listed under a tag       *)
(* exactly when a memory with that id is stored and carries the tag.       *)
(***************************************************************************)
C40_TagIndexAgrees ==
    /\ \A t \in DOMAIN tagIndex : \A mid \in tagIndex[t] :
            mid \in DOMAIN memories /\ t \in memories[mid].tags
    /\ \A mid \in DOMAIN memories : \A t \in memories[mid].tags :
            t \in DOMAIN tagIndex /\ mid \in tagIndex[t]

(***************************************************************************)
(* C38: rotation never restores access.  A rotate_key call on a key that   *)
(* is revoked, suspended or past its expires_at issues no key: it returns  *)
(* no successor and the set of keys is as before.                          *)
(***************************************************************************)
C38_RotationNeverRestores ==
    [][(/\ lastKey'.op = "rotate"
        /\ lastKey'.key \in DOMAIN keys
        /\ ~is_valid(keys[lastKey'.key], now))
       => /\ lastKey'.ret = None
          /\ DOMAIN keys' = DOMAIN keys
          /\ \A h \in DOMAIN keysByHash' : h \in DOMAIN keysByHash]_vars

(***************************************************************************)
(* C36: revocation wins over concurrent verification.  Once revoke_key has *)
(* returned for a key and the cache holds it as revoked with no hash index *)
(* entry, a verify_key or get_key that resumes from its storage read with  *)
(* a stale copy of the key (one that is not revoked) leaves the cached key *)
(* revoked and its hash out of the index, and verify_key does not return   *)
(* the key.                                                                *)
(***************************************************************************)
C36_RevocationWinsOverStaleRead ==
    [][\A t \in 1..MaxTasks : \A k \in revoked :
         (/\ tasks[t].pc \in {"verify_read", "get_read"}
          /\ tasks[t].op \in {"verify", "get"}
          /\ tasks'[t] = Idle
          /\ tasks[t].snap.key_id = k
          /\ tasks[t].snap.status # "revoked"
          /\ k \in DOMAIN keys
          /\ keys[k].status = "revoked"
          /\ keys[k].key_hash \notin DOMAIN keysByHash)
         => /\ keys'[k].status = "revoked"
            /\ keys[k].key_hash \notin DOMAIN keysByHash'
            /\ ~(lastKey'.op = "verify" /\ lastKey'.ret = k)]_vars

(***************************************************************************)
(* C39: kernel policies restrict only through their lists.  A step that    *)
(* adds an active kernel policy whose allowed_* and denied_* lists are all *)
(* empty, whatever its permissions, changes no decision of                 *)
(* enforce_operator_invoke or enforce_discovery_register: every operator   *)
(* and capability is allowed after the step exactly when it was before.    *)
(***************************************************************************)
C39_ListlessKernelPolicyChangesNothing ==
    [][\A pid \in DOMAIN policies' \ DOMAIN policies :
         (/\ StartsWith(pid, KERNEL_POLICY_PREFIX)
          /\ policies'[pid].is_active
          /\ policies'[pid].null_fields = {}
          /\ policies'[pid].allowed_operators = {}
          /\ policies'[pid].denied_operators = {}
          /\ policies'[pid].allowed_endpoints = {}
          /\ policies'[pid].denied_endpoints = {}
          /\ \A x \in DOMAIN policies : policies'[x] = policies[x])
         => \A sig \in Signatures, ctx \in Ctxs :
               /\ enforce_operator_invoke(policies', policyOrder', OpId(1), sig[1], sig[2],
                                          ctx, now).allowed
                  = enforce_operator_invoke(policies, policyOrder, OpId(1), sig[1], sig[2],
                                            ctx, now).allowed
               /\ enforce_discovery_register(policies', policyOrder', "rest_api", sig[1],
                                             sig[2], ctx, now).allowed
                  = enforce_discovery_register(policies, policyOrder, "rest_api", sig[1],
                                               sig[2], ctx, now).allowed]_vars


\* C37: once delete_session(id) has returned, the session id is in neither
\* the cache nor the storage adapter, and no get_session, touch_session,
\* extend_session or set_session_data on that id succeeds, also when the
\* call began before the delete and was suspended in the storage adapter.
C37_DeletedStaysDeleted ==
    \A id \in deletedSessions :
        /\ id \notin DOMAIN sessions
        /\ id \notin DOMAIN kv
        /\ ~(lastSess.id = id /\ lastSess.op \in SessOps /\ lastSess.ok)

\* C31: while an operator invocation started by a binding on one slot still
\* awaits its outbound call, the signal loop can take a step for every other
\* slot that has a queued signal and is LISTENING or IDLE.
C31_LoopNeverBlocksOnCalls ==
    \A p \in calls :
        (p.by = "binding" /\ _running /\ loop.at # "off")
            => \A id \in DOMAIN slots \ {p.slot} :
                    Ready(slots[id]) => ENABLED LoopStep

\* C33: an exception raised for a slot while its signal is processed adds
\* exactly one to the slot's error_count, and when the processing of that
\* signal ends the slot is in state ERROR.
C33_ExceptionLeavesError ==
    [][\A id \in DOMAIN slots :
          LET raised == \E ch \in lastNet'.changes :
                            ch.slot = id /\ ch.event = "exception"
              ends   == /\ loop.at = "bind"
                        /\ SlotId(loop.i) = id
                        /\ loop'.at \in {"scan", "sleep"}
          IN  /\ raised => slots'[id].error_count = slots[id].error_count + 1
              /\ (ends /\ (raised \/ slots[id].state = "error"))
                    => slots'[id].state = "error"]_vars

\* C34: whenever the network is running, exactly one signal loop task and
\* exactly one health loop task are alive.
C34_OneLoopOfEachKind ==
    _running => /\ Cardinality(Alive("signal")) = 1
                /\ Cardinality(Alive("health")) = 1

\* C35: a slot for which neither a signal is being processed nor an operator
\* invocation is in flight is not in state PROCESSING or EXECUTING.
C35_NoSlotLeftStuck ==
    \A id \in DOMAIN slots :
        (/\ \A p \in calls : p.slot # id
         /\ ~(loop.at \in {"bind", "await"} /\ SlotId(loop.i) = id))
            => slots[id].state \notin {"processing", "executing"}

\* C32: the catalog on disk holds the same operators as the in-memory
\* registry, with the same call_count, avg_latency_ms, success_rate and
\* last_used (every register and stats update is one step, so none is in
\* progress in any state).
C32_DiskTracksMemory ==
    /\ DOMAIN disk = DOMAIN operators
    /\ \A id \in DOMAIN operators :
            /\ disk[id].call_count = operators[id].call_count
            /\ disk[id].avg_latency_ms = operators[id].avg_latency_ms
            /\ disk[id].success_rate = operators[id].success_rate
            /\ disk[id].last_used = operators[id].last_used

====
